---- MODULE Spec2Model ----
(***************************************************************************)
(* Model of the whirlpool engine (rust/engine): the ApiClient of api.rs    *)
(* (catalog negotiation, payload construction, video-list parsing and the  *)
(* fetch bridge with its curl-cffi fallback) and the Engine entry points   *)
(* of lib.rs that drive it.                                                *)
(*                                                                         *)
(* Strings are tuples of one-character strings, so that trim(), is_empty() *)
(* and equality are computed character by character.  Option<T> is a tuple *)
(* of length 0 (None) or 1 (Some).                                         *)
(***************************************************************************)
EXTENDS Integers, Sequences, FiniteSets, TLC

VARIABLES op, input, output, sent, db, clock, budget, engine

vars == <<op, input, output, sent, db, clock, budget, engine>>

(***************************************************************************)
(* Bounds of the model.                                                    *)
(***************************************************************************)
MaxChannels == 2

MaxOptions == 2

MaxChoices == 2

MaxSelections == 2

MaxRecords == 2

(***************************************************************************)
(* Option<T>, Result<T, EngineError>                                       *)
(***************************************************************************)
None == <<>>

Some(x) == <<x>>

IsSome(o) == Len(o) = 1

Unwrap(o) == o[1]

Ok(v) == [kind |-> "Ok", v |-> v]

Err(k) == [kind |-> k, v |-> <<>>]

IsOk(r) == r.kind = "Ok"

SeqsUpTo(S, n) == UNION {[1..k -> S] : k \in 0..n}

Min(S) == CHOOSE x \in S : \A y \in S : x <= y

\* Iterator::find: the first element of seq at one of the positions `hits`
\* (the positions whose element satisfies the predicate), if any.
Find(seq, hits) == IF hits = {} THEN None ELSE Some(seq[Min(hits)])

(***************************************************************************)
(* Strings                                                                 *)
(***************************************************************************)
EMPTY == <<>>

SPACE == <<" ">>

IsWhitespace(c) == c = " "

RECURSIVE TrimStart(_)
TrimStart(s) ==
    IF s # <<>> /\ IsWhitespace(Head(s)) THEN TrimStart(Tail(s)) ELSE s

RECURSIVE TrimEnd(_)
TrimEnd(s) ==
    IF s # <<>> /\ IsWhitespace(s[Len(s)])
    THEN TrimEnd(SubSeq(s, 1, Len(s) - 1))
    ELSE s

\* str::trim
Trim(s) == TrimEnd(TrimStart(s))

\* str::is_empty
is_empty(s) == Len(s) = 0

\* Variant: the value is checked for blankness but passed on untrimmed.
non_empty_untrimmed(value) ==
    IF is_empty(Trim(value)) THEN None ELSE Some(value)

\* lib.rs non_empty: the trimmed value, or None when nothing is left.
non_empty(value) ==
    LET trimmed == Trim(value)
    IN  IF is_empty(trimmed) THEN None ELSE Some(trimmed)

ACTIVE == <<"a", "c", "t", "i", "v", "e">>

\* ids and status strings the modelled provider uses
ID_A == <<"a">>

ID_B == <<"b">>

ID_C == <<"c">>

STATUS_OFF == <<"o", "f", "f">>

(***************************************************************************)
(* Catalog: ApiStatusResponse / ApiStatusChannel (models.rs)               *)
(***************************************************************************)
\* An ApiStatusChannel as deserialized: `default` and `options` carry
\* #[serde(default)], `status` and `name` are optional.
ApiStatusChannel(id, name, status, default, options) ==
    [id |-> id, name |-> name, status |-> status, default |-> default,
     options |-> options]

\* An ApiStatusResponse as deserialized; every member is optional.
ApiStatusResponse(channels) ==
    [id |-> None, name |-> None, color |-> None, categories |-> None,
     api_version |-> None, primary_color |-> None, secondary_color |-> None,
     icon_url |-> None, sources |-> None, adblock_required |-> None,
     source_releases_url |-> None, channels |-> channels]

\* Variant: an "active" channel is preferred to the default one.
select_channel_active_first(status) ==
    IF status.channels = None THEN None
    ELSE LET channels == Unwrap(status.channels)
             IsDefault == {i \in 1..Len(channels) : channels[i].default}
             IsActive == {i \in 1..Len(channels) : channels[i].status = Some(ACTIVE)}
             byActive == Find(channels, IsActive)
             byDefault == Find(channels, IsDefault)
         IN  IF IsSome(byActive) THEN byActive
             ELSE IF IsSome(byDefault) THEN byDefault
             ELSE IF channels # <<>> THEN Some(channels[1]) ELSE None

\* Variant: the "active" status is not looked at.
select_channel_no_active(status) ==
    IF status.channels = None THEN None
    ELSE LET channels == Unwrap(status.channels)
             IsDefault == {i \in 1..Len(channels) : channels[i].default}
             byDefault == Find(channels, IsDefault)
         IN  IF IsSome(byDefault) THEN byDefault
             ELSE IF channels # <<>> THEN Some(channels[1]) ELSE None

\* api.rs select_channel: default flag, then first "active", then first.
select_channel(status) ==
    IF status.channels = None THEN None
    ELSE LET channels == Unwrap(status.channels)
             IsDefault == {i \in 1..Len(channels) : channels[i].default}
             IsActive == {i \in 1..Len(channels) : channels[i].status = Some(ACTIVE)}
             byDefault == Find(channels, IsDefault)
             byActive == Find(channels, IsActive)
         IN  IF IsSome(byDefault) THEN byDefault
             ELSE IF IsSome(byActive) THEN byActive
             ELSE IF channels # <<>> THEN Some(channels[1]) ELSE None

\* api.rs select_channel_with_id_or_default; channel_id is an Option<&str>.
select_channel_with_id_or_default(status, channel_id) ==
    IF status.channels = None THEN None
    ELSE LET channels == Unwrap(status.channels)
             wanted == IF IsSome(channel_id) /\ ~is_empty(Trim(Unwrap(channel_id)))
                       THEN channel_id ELSE None
             HasId == {i \in 1..Len(channels) : channels[i].id = Unwrap(wanted)}
             byId == IF IsSome(wanted) THEN Find(channels, HasId) ELSE None
         IN  IF IsSome(byId) THEN byId ELSE select_channel(status)

(***************************************************************************)
(* Request payload (api.rs build_videos_payload)                           *)
(***************************************************************************)
K_CHANNEL == <<"c", "h", "a", "n", "n", "e", "l">>

K_QUERY == <<"q", "u", "e", "r", "y">>

K_PAGE == <<"p", "a", "g", "e">>

K_PER_PAGE == <<"p", "e", "r", "P", "a", "g", "e">>

SORT == <<"s", "o", "r", "t">>

LATEST == <<"l", "a", "t", "e", "s", "t">>

VIEWS == <<"v", "i", "e", "w", "s">>

LIKES == <<"l", "i", "k", "e", "s">>

DUR == <<"d", "u", "r">>

LONG == <<"l", "o", "n", "g">>

BOGUS == <<"z">>

\* An ApiStatusChoice and an ApiStatusChannelOption as deserialized.
ApiStatusChoice(id) == [id |-> id, title |-> None]

ApiStatusChannelOption(id, choices) ==
    [id |-> id, title |-> None, multi_select |-> FALSE, options |-> choices]

FilterSelection(option_id, choice_id) ==
    [option_id |-> option_id, choice_id |-> choice_id]

Digits == <<"0", "1", "2", "3", "4", "5", "6", "7", "8", "9">>

\* u32::to_string: the decimal digits of n, most significant first.
RECURSIVE to_string(_)
to_string(n) ==
    IF n < 10 THEN <<Digits[n + 1]>>
    ELSE to_string(n \div 10) \o <<Digits[(n % 10) + 1]>>

\* serde_json::Map::insert / HashMap insert: the key's old value is replaced.
Insert(map, key, value) ==
    [k \in (DOMAIN map) \cup {key} |-> IF k = key THEN value ELSE map[k]]

EmptyMap == [k \in {} |-> <<>>]

\* The explicit_selections HashMap: trimmed (option id -> choice id) pairs of
\* the selections whose two ids are both non-blank; a later pair replaces an
\* earlier one with the same option id.
RECURSIVE explicit_selections(_)
explicit_selections(selections) ==
    IF selections = <<>> THEN EmptyMap
    ELSE LET n == Len(selections)
             rest == explicit_selections(SubSeq(selections, 1, n - 1))
             option_id == Trim(selections[n].option_id)
             choice_id == Trim(selections[n].choice_id)
         IN  IF is_empty(option_id) \/ is_empty(choice_id) THEN rest
             ELSE Insert(rest, option_id, choice_id)

\* Variant: for the "sort" option the choice "latest" is the default.
selected_id_latest(option, explicit) ==
    LET candidate == IF option.id \in DOMAIN explicit
                     THEN Some(explicit[option.id]) ELSE None
        IsCandidate == {j \in 1..Len(option.options) :
                            option.options[j].id = Unwrap(candidate)}
        IsLatest == {j \in 1..Len(option.options) : option.options[j].id = LATEST}
        found == IF IsSome(candidate) THEN Find(option.options, IsCandidate)
                 ELSE None
        latest == IF option.id = SORT THEN Find(option.options, IsLatest)
                  ELSE None
    IN  IF IsSome(found) THEN Some(Unwrap(found).id)
        ELSE IF IsSome(latest) THEN Some(LATEST)
        ELSE IF option.options # <<>> THEN Some(option.options[1].id)
        ELSE None

\* Variant: the explicit choice id is used without looking it up.
selected_id_unchecked(option, explicit) ==
    IF option.id \in DOMAIN explicit THEN Some(explicit[option.id])
    ELSE IF option.options # <<>> THEN Some(option.options[1].id)
    ELSE None

\* The selected_id of one option: the explicit candidate when it is the id
\* of one of the option's choices, else the option's first choice.
selected_id(option, explicit) ==
    LET candidate == IF option.id \in DOMAIN explicit
                     THEN Some(explicit[option.id]) ELSE None
        IsCandidate == {j \in 1..Len(option.options) :
                            option.options[j].id = Unwrap(candidate)}
        found == IF IsSome(candidate) THEN Find(option.options, IsCandidate)
                 ELSE None
    IN  IF IsSome(found) THEN Some(Unwrap(found).id)
        ELSE IF option.options # <<>> THEN Some(option.options[1].id)
        ELSE None

\* The loop over channel.options, in list order.
RECURSIVE insert_options(_, _, _)
insert_options(payload, options, explicit) ==
    IF options = <<>> THEN payload
    ELSE LET option == Head(options)
             chosen == selected_id(option, explicit)
             next == IF is_empty(Trim(option.id)) \/ option.options = <<>>
                     THEN payload
                     ELSE IF IsSome(chosen)
                          THEN Insert(payload, option.id, Unwrap(chosen))
                          ELSE payload
         IN  insert_options(next, Tail(options), explicit)

build_videos_payload(channel, query, page, limit, selections) ==
    LET base == Insert(Insert(Insert(Insert(EmptyMap,
                    K_CHANNEL, channel.id),
                    K_QUERY, query),
                    K_PAGE, to_string(page)),
                    K_PER_PAGE, to_string(limit))
    IN  insert_options(base, channel.options, explicit_selections(selections))

(***************************************************************************)
(* Video-list parsing (api.rs parse_videos, map_video_record)              *)
(*                                                                         *)
(* A response body is modelled by its JSON structure.  An array element is *)
(* a record (well typed for ApiVideoRecord or not), a nested array, or a   *)
(* scalar; a member of an object is absent, present but not an array, or   *)
(* an array of elements.                                                   *)
(***************************************************************************)
UNTITLED == <<"U", "n", "t", "i", "t", "l", "e", "d">>

ApiVideoRecord(id, hashed_url, url, title, network) ==
    [id |-> id, hashed_url |-> hashed_url, url |-> url, title |-> title,
     network |-> network, duration |-> None, image |-> None,
     author_name |-> None, extractor |-> None, view_count |-> None]

NoRecord == ApiVideoRecord(None, None, None, None, None)

RecordElem(rec) == [kind |-> "record", typed |-> TRUE, rec |-> rec, elems |-> <<>>]

IllTypedElem == [kind |-> "record", typed |-> FALSE, rec |-> NoRecord, elems |-> <<>>]

ScalarElem == [kind |-> "scalar", typed |-> FALSE, rec |-> NoRecord, elems |-> <<>>]

ArrayElem(elems) == [kind |-> "array", typed |-> FALSE, rec |-> NoRecord, elems |-> elems]

AbsentMember == [present |-> FALSE, array |-> FALSE, elems |-> <<>>]

NonArrayMember == [present |-> TRUE, array |-> FALSE, elems |-> <<>>]

ArrayMember(elems) == [present |-> TRUE, array |-> TRUE, elems |-> elems]

InvalidBody == [shape |-> "invalid", videos |-> AbsentMember, items |-> AbsentMember, elems |-> <<>>]

ObjectBody(videos, items) == [shape |-> "object", videos |-> videos, items |-> items, elems |-> <<>>]

ArrayBody(elems) == [shape |-> "array", videos |-> AbsentMember, items |-> AbsentMember, elems |-> elems]

\* Deserialize for Vec<ApiVideoRecord> from an array: every element has to
\* be a well-typed record.
de_records(elems) ==
    IF \A i \in 1..Len(elems) : elems[i].kind = "record" /\ elems[i].typed
    THEN Some([i \in 1..Len(elems) |-> elems[i].rec])
    ELSE None

\* A #[serde(default)] Vec member of the envelope: empty when absent.
de_member(member) ==
    IF ~member.present THEN Some(<<>>)
    ELSE IF ~member.array THEN None
    ELSE de_records(member.elems)

\* A Vec member given by position in an array body.
de_position(elems, i) ==
    IF i > Len(elems) THEN Some(<<>>)
    ELSE IF elems[i].kind # "array" THEN None
    ELSE de_records(elems[i].elems)

\* Variant: an object needs a `videos` or an `items` member.
de_envelope_strict(body) ==
    LET videos == IF body.shape = "object" THEN de_member(body.videos)
                  ELSE de_position(body.elems, 1)
        items == IF body.shape = "object" THEN de_member(body.items)
                 ELSE de_position(body.elems, 2)
    IN  IF body.shape = "invalid" THEN None
        ELSE IF body.shape = "array" /\ Len(body.elems) > 2 THEN None
        ELSE IF body.shape = "object" /\ ~body.videos.present /\ ~body.items.present
             THEN None
        ELSE IF videos = None \/ items = None THEN None
        ELSE Some([videos |-> Unwrap(videos), items |-> Unwrap(items)])

\* serde_json::from_str::<ApiVideoEnvelope>: a JSON object (members by name,
\* unknown members ignored) or a JSON array (members by position).
de_envelope(body) ==
    LET videos == IF body.shape = "object" THEN de_member(body.videos)
                  ELSE de_position(body.elems, 1)
        items == IF body.shape = "object" THEN de_member(body.items)
                 ELSE de_position(body.elems, 2)
    IN  IF body.shape = "invalid" THEN None
        ELSE IF body.shape = "array" /\ Len(body.elems) > 2 THEN None
        ELSE IF videos = None \/ items = None THEN None
        ELSE Some([videos |-> Unwrap(videos), items |-> Unwrap(items)])

\* serde_json::from_str::<Vec<ApiVideoRecord>>
de_vec(body) ==
    IF body.shape = "array" THEN de_records(body.elems) ELSE None

\* Option::filter(|value| !value.is_empty())
filter_non_empty(o) == IF IsSome(o) /\ ~is_empty(Unwrap(o)) THEN o ELSE None

unwrap_or(o, d) == IF IsSome(o) THEN Unwrap(o) ELSE d

or(o, p) == IF IsSome(o) THEN o ELSE p

\* Variant: the page URL is preferred to the content hash.
video_id_url_first(record) ==
    LET page_url == unwrap_or(record.url, EMPTY)
    IN  IF IsSome(filter_non_empty(record.id)) THEN Unwrap(record.id)
        ELSE IF ~is_empty(page_url) THEN page_url
        ELSE unwrap_or(filter_non_empty(record.hashed_url), EMPTY)

\* The id of map_video_record.
video_id(record) ==
    LET page_url == unwrap_or(record.url, EMPTY)
    IN  unwrap_or(or(filter_non_empty(record.id),
                     filter_non_empty(record.hashed_url)),
                  page_url)

map_video_record(record, default_channel_id) ==
    [id |-> video_id(record),
     title |-> unwrap_or(record.title, UNTITLED),
     page_url |-> unwrap_or(record.url, EMPTY),
     duration_seconds |-> record.duration,
     image_url |-> record.image,
     network |-> or(record.network, Some(default_channel_id)),
     author_name |-> record.author_name,
     extractor |-> record.extractor,
     view_count |-> record.view_count]

map_records(records, default_channel_id) ==
    [i \in 1..Len(records) |-> map_video_record(records[i], default_channel_id)]

\* Variant: `items` is preferred to `videos`.
envelope_source_items_first(envelope) ==
    IF envelope.items = <<>> THEN envelope.videos ELSE envelope.items

\* The record list an envelope contributes: `items` when `videos` is empty.
envelope_source(envelope) ==
    IF envelope.videos = <<>> THEN envelope.items ELSE envelope.videos

parse_videos(body, default_channel_id) ==
    LET envelope == de_envelope(body)
        videos == de_vec(body)
    IN  IF IsSome(envelope)
        THEN Ok(map_records(envelope_source(Unwrap(envelope)), default_channel_id))
        ELSE IF IsSome(videos)
        THEN Ok(map_records(Unwrap(videos), default_channel_id))
        ELSE Err("Serialization")

(***************************************************************************)
(* Fetch bridge (api.rs fetch_text, should_try_curl_cffi) and the calls    *)
(* built on it.  `net` is what the outside world does during one call of   *)
(* fetch_text: whether the runtime can be built, whether the primary       *)
(* request fails at transport level or answers (status, body), and what    *)
(* the curl-cffi bridge process does if it is run.                         *)
(***************************************************************************)
POST == "POST"

STATUS_PATH == "/api/status"

VIDEOS_PATH == "/api/videos"

\* The literal "{}" body of the status request: an empty JSON object.
EmptyObject == EmptyMap

ApiClient(base_url, script_path) ==
    [base_url |-> base_url, python_executable |-> "python3",
     curl_cffi_script_path |-> script_path]

\* format!("{}/api/...", self.base_url)
endpoint(client, path) == [base |-> client.base_url, path |-> path]

TransportError(fallback) ==
    [runtime |-> TRUE, primary |-> "error", status |-> 0, body |-> <<>>,
     fallback |-> fallback]

Response(status, body, fallback) ==
    [runtime |-> TRUE, primary |-> "response", status |-> status, body |-> body,
     fallback |-> fallback]

NoRuntime ==
    [runtime |-> FALSE, primary |-> "error", status |-> 0, body |-> <<>>,
     fallback |-> Err("Process")]

Attempt(via, method, url, json_body) ==
    [via |-> via, method |-> method, url |-> url, json_body |-> json_body]

Outcome(result, attempts) == [result |-> result, attempts |-> attempts]

\* StatusCode::is_success
is_success(status) == status >= 200 /\ status <= 299

\* Variant: every non-2xx status is retried through the bridge.
should_try_curl_cffi_always(status) == TRUE

\* Variant: 429 is not retried through the bridge.
should_try_curl_cffi_no_429(status) == status \in {403, 503}

should_try_curl_cffi(status) == status \in {403, 429, 503}

\* The call of fetch_with_curl_cffi made by fetch_text: the bridge process
\* is run with the given arguments and its stdout is the response text.
fetch_with_curl_cffi(python_executable, script_path, method, url, json_body, net) ==
    Outcome(net.fallback, <<Attempt("curl_cffi", method, url, json_body)>>)

\* Variant: when the bridge fails the primary request is sent once more.
fetch_text_retry(client, method, url, json_body, net) ==
    LET primary == <<Attempt("primary", method, url, json_body)>>
        script == client.curl_cffi_script_path
        bridge == fetch_with_curl_cffi(client.python_executable, Unwrap(script),
                                       method, url, json_body, net)
        bridged == IF IsOk(bridge.result)
                   THEN Outcome(bridge.result, primary \o bridge.attempts)
                   ELSE Outcome(Err("Network"), primary \o bridge.attempts \o primary)
    IN  IF ~net.runtime THEN Outcome(Err("Network"), <<>>)
        ELSE IF net.primary = "error"
        THEN IF IsSome(script) THEN bridged ELSE Outcome(Err("Network"), primary)
        ELSE IF is_success(net.status) THEN Outcome(Ok(net.body), primary)
        ELSE IF should_try_curl_cffi(net.status) /\ IsSome(script) THEN bridged
        ELSE Outcome(Err("Network"), primary)

fetch_text(client, method, url, json_body, net) ==
    LET primary == <<Attempt("primary", method, url, json_body)>>
        script == client.curl_cffi_script_path
        bridge == fetch_with_curl_cffi(client.python_executable, Unwrap(script),
                                       method, url, json_body, net)
    IN  IF ~net.runtime THEN Outcome(Err("Network"), <<>>)
        ELSE IF net.primary = "error"
        THEN IF IsSome(script)
             THEN Outcome(bridge.result, primary \o bridge.attempts)
             ELSE Outcome(Err("Network"), primary)
        ELSE IF is_success(net.status) THEN Outcome(Ok(net.body), primary)
        ELSE IF should_try_curl_cffi(net.status) /\ IsSome(script)
        THEN Outcome(bridge.result, primary \o bridge.attempts)
        ELSE Outcome(Err("Network"), primary)

\* A status body is modelled by whether it decodes as an ApiStatusResponse
\* and by the decoded value.
StatusBody(valid, parsed) == [valid |-> valid, parsed |-> parsed]

\* serde_json::from_str::<ApiStatusResponse>
de_status(body) == IF body.valid THEN Ok(body.parsed) ELSE Err("Serialization")

fetch_status_payload(client, net) ==
    LET fetched == fetch_text(client, POST, endpoint(client, STATUS_PATH),
                              Some(EmptyObject), net)
    IN  IF IsOk(fetched.result)
        THEN Outcome(de_status(fetched.result.v), fetched.attempts)
        ELSE fetched

map_status_channel(channel) ==
    [id |-> channel.id,
     title |-> unwrap_or(channel.name, channel.id),
     options |-> [i \in 1..Len(channel.options) |->
                    LET option == channel.options[i]
                    IN  [id |-> option.id,
                         title |-> unwrap_or(option.title, option.id),
                         choices |-> [j \in 1..Len(option.options) |->
                            [id |-> option.options[j].id,
                             title |-> unwrap_or(option.options[j].title,
                                                 option.options[j].id)]]]]]

UNKNOWN == <<"u", "n", "k", "n", "o", "w", "n">>

status_summary(parsed) ==
    LET channels == unwrap_or(parsed.channels, <<>>)
    IN  [name |-> unwrap_or(parsed.name, UNKNOWN),
         api_version |-> unwrap_or(or(parsed.api_version, parsed.id), UNKNOWN),
         icon_url |-> parsed.icon_url,
         primary_color |-> or(parsed.primary_color, parsed.color),
         secondary_color |-> parsed.secondary_color,
         channels |-> [i \in 1..Len(channels) |-> channels[i].id],
         channel_details |-> [i \in 1..Len(channels) |-> map_status_channel(channels[i])],
         sources |-> unwrap_or(or(parsed.sources, parsed.categories), <<>>),
         adblock_required |-> unwrap_or(parsed.adblock_required, FALSE),
         source_releases_url |-> parsed.source_releases_url]

fetch_status(client, net) ==
    LET payload == fetch_status_payload(client, net)
    IN  IF IsOk(payload.result)
        THEN Outcome(Ok(status_summary(payload.result.v)), payload.attempts)
        ELSE payload

\* Variant: the records take the caller's channel id as their default
\* network when one was given.
discover_videos_with_filters_callers_id(client, query, page, limit, channel_id, selections, net1, net2) ==
    LET status == fetch_status_payload(client, net1)
        selected == select_channel_with_id_or_default(status.result.v, channel_id)
        payload == build_videos_payload(Unwrap(selected), query, page, limit, selections)
        fetched == fetch_text(client, POST, endpoint(client, VIDEOS_PATH),
                              Some(payload), net2)
        attempts == status.attempts \o fetched.attempts
    IN  IF ~IsOk(status.result) THEN status
        ELSE IF selected = None THEN Outcome(Err("NotFound"), status.attempts)
        ELSE IF ~IsOk(fetched.result) THEN Outcome(fetched.result, attempts)
        ELSE Outcome(parse_videos(fetched.result.v,
                                  unwrap_or(channel_id, Unwrap(selected).id)),
                     attempts)

\* ApiClient::discover_videos_with_filters; net1 and net2 are the outside
\* world during the status request and during the videos request.
discover_videos_with_filters(client, query, page, limit, channel_id, selections, net1, net2) ==
    LET status == fetch_status_payload(client, net1)
        selected == select_channel_with_id_or_default(status.result.v, channel_id)
        payload == build_videos_payload(Unwrap(selected), query, page, limit, selections)
        fetched == fetch_text(client, POST, endpoint(client, VIDEOS_PATH),
                              Some(payload), net2)
        attempts == status.attempts \o fetched.attempts
    IN  IF ~IsOk(status.result) THEN status
        ELSE IF selected = None THEN Outcome(Err("NotFound"), status.attempts)
        ELSE IF ~IsOk(fetched.result) THEN Outcome(fetched.result, attempts)
        ELSE Outcome(parse_videos(fetched.result.v, Unwrap(selected).id), attempts)

\* What a store operation leaves: its result and the store.
UNIT == <<>>

Done(result, store) == [result |-> result, store |-> store]

(***************************************************************************)
(* Persistent store (db.rs).  The store file holds the five tables of the  *)
(* unified schema and whatever legacy tables it was created with.  Every   *)
(* table is a function from its primary key to the row's other columns; a  *)
(* nullable column holds an Option.  Of "video_details" the columns that   *)
(* the engine reads or writes are modelled.                                *)
(*                                                                         *)
(* The time `now` counts milliseconds.  A TEXT date is modelled by its     *)
(* format: what now_iso writes (RFC 3339 with milliseconds), a blank text, *)
(* or a text that is no timestamp at all.                                  *)
(***************************************************************************)
MillisPerSecond == 1000

Rfc3339(ms) == [fmt |-> "rfc3339", ms |-> ms]

BLANK_DATE == [fmt |-> "blank", ms |-> 0]

\* A text that starts with a letter and parses as no timestamp.
OTHER_DATE == [fmt |-> "other", ms |-> 0]

\* Utc::now().to_rfc3339_opts(SecondsFormat::Millis, true)
now_iso(now) == Rfc3339(now)

\* Utc::now().timestamp(): whole seconds.
timestamp(now) == now \div MillisPerSecond

\* A text that parses as the i64 thousands * 1000 + units, with units in
\* 0..999: an integer is kept by its thousands, which the integers of the
\* model can hold also where they cannot hold the integer itself.
IntegerText(thousands, units) ==
    [fmt |-> "integer", thousands |-> thousands, units |-> units]

\* parse_timestamp_to_epoch_seconds on the modelled formats: a blank text
\* and a text that is no timestamp give None, an RFC 3339 text gives its
\* whole seconds, and an integer raw_number is divided by 1000 when
\* raw_number > 10_000_000_000.
parse_timestamp_to_epoch_seconds(value) ==
    IF value.fmt = "integer"
    THEN IF \/ value.thousands > 10000000
            \/ value.thousands = 10000000 /\ value.units > 0
         THEN Some(value.thousands)
         ELSE Some(value.thousands * 1000 + value.units)
    ELSE IF value.fmt = "rfc3339" THEN Some(value.ms \div MillisPerSecond)
    ELSE None

\* SQL: x IS NOT NULL AND TRIM(x) <> '' on a date column.
is_set(date) == IsSome(date) /\ Unwrap(date).fmt # "blank"

\* SQLite's order of the values of a date column: NULL first, then texts in
\* byte order, in which a blank text precedes every timestamp, timestamps of
\* the fixed-width now_iso format follow their time, and a text that starts
\* with a letter follows every timestamp.  An integer text lies between the
\* blank texts and those that start with a letter; its place among the
\* timestamps and the other integer texts depends on its digits and is left
\* open.
date_class(date) ==
    IF date = None THEN 0
    ELSE IF Unwrap(date).fmt = "blank" THEN 1
    ELSE IF Unwrap(date).fmt \in {"rfc3339", "integer"} THEN 2
    ELSE 3

date_less(a, b) ==
    \/ date_class(a) < date_class(b)
    \/ /\ date_class(a) = 2 /\ date_class(b) = 2
       /\ Unwrap(a).fmt = "rfc3339" /\ Unwrap(b).fmt = "rfc3339"
       /\ Unwrap(a).ms < Unwrap(b).ms

\* JSON texts: an object with its members, a blank text, or a text that is
\* no JSON.  serde_json::to_string of a struct writes one member per field.
to_json(value) == [json |-> "object", members |-> value]

BLANK_JSON == [json |-> "blank", members |-> <<>>]

OTHER_JSON == [json |-> "other", members |-> <<>>]

\* SQL: x IS NOT NULL AND TRIM(x) <> '' on a JSON column.
has_payload(text) == IsSome(text) /\ Unwrap(text).json # "blank"

Member(members, name) == IF name \in DOMAIN members THEN members[name] ELSE None

\* serde_json::from_str::<ResolvedVideo>(..).ok(): the four String fields
\* are required, the Option fields default to None, other members are
\* skipped.
from_str_ResolvedVideo(text) ==
    IF /\ text.json = "object"
       /\ {"id", "title", "page_url", "stream_url"} \subseteq DOMAIN text.members
    THEN Some([id |-> text.members.id,
               title |-> text.members.title,
               page_url |-> text.members.page_url,
               stream_url |-> text.members.stream_url,
               thumbnail_url |-> Member(text.members, "thumbnail_url"),
               author_name |-> Member(text.members, "author_name"),
               extractor |-> Member(text.members, "extractor"),
               duration_seconds |-> Member(text.members, "duration_seconds")])
    ELSE None

VideoItem(id, title, page_url) ==
    [id |-> id, title |-> title, page_url |-> page_url, duration_seconds |-> None,
     image_url |-> None, network |-> None, author_name |-> None,
     extractor |-> None, view_count |-> None]

ResolvedVideo(id, title, page_url, stream_url) ==
    [id |-> id, title |-> title, page_url |-> page_url, stream_url |-> stream_url,
     thumbnail_url |-> None, author_name |-> None, extractor |-> None,
     duration_seconds |-> None]

\* A row of "video_details" as INSERT leaves it when only id and url are
\* given: the DEFAULT (0) of views and duration, NULL elsewhere.
DefaultRow(url) ==
    [url |-> url, title |-> None, thumb |-> None, dateAdded |-> None,
     views |-> Some(0), duration |-> Some(0), uploader |-> None,
     network |-> None, lastUpdated |-> None, favoriteDate |-> None,
     lastWatchDate |-> None, allFormats |-> None, rawData |-> None,
     cacheDate |-> None]

NoLegacyTables == [t \in {} |-> <<>>]

\* The store after init() on a new file.
EmptyStore ==
    [video_details |-> EmptyMap, searches |-> EmptyMap, categories |-> EmptyMap,
     user_preferences |-> EmptyMap, server_preferences |-> EmptyMap,
     legacy |-> NoLegacyTables]

\* non_empty_str of db.rs: the trimmed text, if any is left.
non_empty_str(value) ==
    LET trimmed == Trim(value)
    IN  IF is_empty(trimmed) THEN None ELSE Some(trimmed)

RESOLVED_PREFIX == <<"r", "e", "s", "o", "l", "v", "e", "d", ":">>

format_resolved_cache_id(page_url) == RESOLVED_PREFIX \o page_url

RESOLVED_VIDEO ==
    <<"R", "e", "s", "o", "l", "v", "e", "d", " ", "V", "i", "d", "e", "o">>

\* video.view_count.and_then(|count| i64::try_from(count).ok()): the counts
\* of the model are far below i64::MAX, where the conversion keeps them.
views_of(video) == video.view_count

\* One execution of the upsert statement of cache_videos.
\* Variant: INSERT OR REPLACE, which rewrites the whole row.
upsert_cached_video_replace(table, video, now) ==
    Insert(table, video.id,
           [DefaultRow(video.page_url) EXCEPT
               !.title = Some(video.title), !.thumb = video.image_url,
               !.dateAdded = Some(now_iso(now)), !.views = views_of(video),
               !.duration = video.duration_seconds, !.uploader = video.author_name,
               !.network = video.network, !.lastUpdated = Some(now_iso(now)),
               !.rawData = Some(to_json(video)), !.cacheDate = Some(now_iso(now))])

upsert_cached_video(table, video, now) ==
    IF video.id \in DOMAIN table
    THEN [table EXCEPT ![video.id] =
            [@ EXCEPT !.url = video.page_url, !.title = Some(video.title),
                      !.thumb = video.image_url, !.views = views_of(video),
                      !.duration = video.duration_seconds,
                      !.uploader = video.author_name, !.network = video.network,
                      !.lastUpdated = Some(now_iso(now)),
                      !.rawData = Some(to_json(video)),
                      !.cacheDate = Some(now_iso(now))]]
    ELSE Insert(table, video.id,
                [DefaultRow(video.page_url) EXCEPT
                    !.title = Some(video.title), !.thumb = video.image_url,
                    !.dateAdded = Some(now_iso(now)), !.views = views_of(video),
                    !.duration = video.duration_seconds,
                    !.uploader = video.author_name, !.network = video.network,
                    !.lastUpdated = Some(now_iso(now)),
                    !.rawData = Some(to_json(video)),
                    !.cacheDate = Some(now_iso(now))])

\* The loop of cache_videos over the batch, in order.
RECURSIVE cache_videos_from(_, _, _, _)
cache_videos_from(table, videos, i, now) ==
    IF i > Len(videos) THEN table
    ELSE cache_videos_from(upsert_cached_video(table, videos[i], now), videos, i + 1, now)

\* Database::cache_videos: the store after the committed transaction.
cache_videos(store, videos, now) ==
    Done(Ok(UNIT), [store EXCEPT !.video_details = cache_videos_from(@, videos, 1, now)])

\* Database::cache_resolved_video.
\* Variant: the row is always written under the resolved id, whether or not
\* rows with the page URL exist.
cache_resolved_video_by_id(store, page_url, video, now) ==
    LET table == store.video_details
        payload == to_json(video)
        resolved_id == IF is_empty(Trim(video.id))
                       THEN format_resolved_cache_id(page_url) ELSE video.id
        title == unwrap_or(non_empty_str(video.title), RESOLVED_VIDEO)
    IN  Done(Ok(UNIT),
             [store EXCEPT !.video_details =
                Insert(table, resolved_id,
                       [DefaultRow(page_url) EXCEPT
                           !.title = Some(title), !.lastUpdated = Some(now_iso(now)),
                           !.cacheDate = Some(now_iso(now)),
                           !.allFormats = Some(payload), !.rawData = Some(payload),
                           !.dateAdded = Some(now_iso(now))])])

\* The first statement of cache_resolved_video: the UPDATE of the rows with
\* the page URL.
update_by_url(table, page_url, video, now) ==
    LET payload == to_json(video)
    IN  [id \in DOMAIN table |->
            IF table[id].url = page_url
            THEN [table[id] EXCEPT
                    !.allFormats = Some(payload),
                    !.cacheDate = Some(now_iso(now)),
                    !.lastUpdated = Some(now_iso(now)),
                    !.title = IF video.title = EMPTY THEN @
                              ELSE Some(video.title)]
            ELSE table[id]]

\* Variant: INSERT OR REPLACE, which writes the row anew.
upsert_resolved_replace(table, page_url, video, now) ==
    LET payload == to_json(video)
        resolved_id == IF is_empty(Trim(video.id))
                       THEN format_resolved_cache_id(page_url) ELSE video.id
        title == unwrap_or(non_empty_str(video.title), RESOLVED_VIDEO)
    IN  Insert(table, resolved_id,
               [DefaultRow(page_url) EXCEPT
                   !.title = Some(title),
                   !.lastUpdated = Some(now_iso(now)),
                   !.cacheDate = Some(now_iso(now)),
                   !.allFormats = Some(payload),
                   !.rawData = Some(payload),
                   !.dateAdded = Some(now_iso(now))])

\* The second statement of cache_resolved_video: the upsert by id.
upsert_resolved(table, page_url, video, now) ==
    LET payload == to_json(video)
        resolved_id == IF is_empty(Trim(video.id))
                       THEN format_resolved_cache_id(page_url) ELSE video.id
        title == unwrap_or(non_empty_str(video.title), RESOLVED_VIDEO)
    IN  IF resolved_id \in DOMAIN table
        THEN [table EXCEPT ![resolved_id] =
                [@ EXCEPT !.url = page_url, !.title = Some(title),
                          !.lastUpdated = Some(now_iso(now)),
                          !.cacheDate = Some(now_iso(now)),
                          !.allFormats = Some(payload),
                          !.rawData = Some(payload)]]
        ELSE Insert(table, resolved_id,
                       [DefaultRow(page_url) EXCEPT
                           !.title = Some(title),
                           !.lastUpdated = Some(now_iso(now)),
                           !.cacheDate = Some(now_iso(now)),
                           !.allFormats = Some(payload),
                           !.rawData = Some(payload),
                           !.dateAdded = Some(now_iso(now))])

\* The UPDATE by page URL and, when it changed no row, the upsert by id.
resolved_rows(table, page_url, video, now) ==
    IF \E id \in DOMAIN table : table[id].url = page_url
    THEN update_by_url(table, page_url, video, now)
    ELSE upsert_resolved(table, page_url, video, now)

cache_resolved_video(store, page_url, video, now) ==
    Done(Ok(UNIT),
         [store EXCEPT !.video_details = resolved_rows(@, page_url, video, now)])

\* What get_cached_resolved_video makes of the row its query returned.
\* Variant: the age is not checked.
cached_row_result_any_age(row, max_age_seconds, now) ==
    IF row.cacheDate = None THEN Err("Database")
    ELSE IF parse_timestamp_to_epoch_seconds(Unwrap(row.cacheDate)) = None
    THEN Ok(None)
    ELSE Ok(from_str_ResolvedVideo(Unwrap(row.allFormats)))

\* The row is read as (String, String): a NULL cacheDate fails the read of
\* the row, which is a Database error.
cached_row_result(row, max_age_seconds, now) ==
    LET updated_at_epoch == parse_timestamp_to_epoch_seconds(Unwrap(row.cacheDate))
    IN  IF row.cacheDate = None THEN Err("Database")
        ELSE IF updated_at_epoch = None THEN Ok(None)
        ELSE IF timestamp(now) - Unwrap(updated_at_epoch) > max_age_seconds
        THEN Ok(None)
        ELSE Ok(from_str_ResolvedVideo(Unwrap(row.allFormats)))

\* Database::get_cached_resolved_video: the results the call may return.
\* The query takes a row with the page URL and a payload whose cacheDate is
\* last in SQLite's order; SQLite is free to take any of several such rows.
get_cached_resolved_video(store, page_url, max_age_seconds, now) ==
    LET table == store.video_details
        found == {id \in DOMAIN table :
                    table[id].url = page_url /\ has_payload(table[id].allFormats)}
        first == {id \in found :
                    \A other \in found :
                        ~date_less(table[id].cacheDate, table[other].cacheDate)}
    IN  IF found = {} THEN {Ok(None)}
        ELSE {cached_row_result(table[id], max_age_seconds, now) : id \in first}

\* Database::add_favorite: the upsert and the FavoriteItem handed back.
FavoriteItem(id, title, image_url, network, added_at_epoch) ==
    [video_id |-> id, title |-> title, image_url |-> image_url,
     network |-> network, added_at_epoch |-> added_at_epoch]

add_favorite(store, video, now) ==
    LET table == store.video_details
        favorite == FavoriteItem(video.id, video.title, video.image_url,
                                 video.network, timestamp(now))
        written ==
            IF video.id \in DOMAIN table
            THEN [table EXCEPT ![video.id] =
                    [@ EXCEPT !.url = video.page_url,
                              !.title = Some(favorite.title),
                              !.thumb = favorite.image_url,
                              !.views = views_of(video),
                              !.duration = video.duration_seconds,
                              !.uploader = video.author_name,
                              !.network = favorite.network,
                              !.lastUpdated = Some(now_iso(now)),
                              !.favoriteDate = Some(now_iso(now)),
                              !.rawData = Some(to_json(video))]]
            ELSE Insert(table, video.id,
                        [DefaultRow(video.page_url) EXCEPT
                            !.title = Some(favorite.title),
                            !.thumb = favorite.image_url,
                            !.dateAdded = Some(now_iso(now)),
                            !.views = views_of(video),
                            !.duration = video.duration_seconds,
                            !.uploader = video.author_name,
                            !.network = favorite.network,
                            !.lastUpdated = Some(now_iso(now)),
                            !.favoriteDate = Some(now_iso(now)),
                            !.rawData = Some(to_json(video))])
    IN  Done(Ok(favorite), [store EXCEPT !.video_details = written])

\* Variant: the row is deleted.
remove_favorite_delete(store, id_to_remove) ==
    LET table == store.video_details
    IN  Done(Ok(id_to_remove \in DOMAIN table),
             [store EXCEPT !.video_details =
                [id \in (DOMAIN table) \ {id_to_remove} |-> table[id]]])

\* Database::remove_favorite: true when the UPDATE matched a row.
remove_favorite(store, id_to_remove) ==
    LET table == store.video_details
    IN  Done(Ok(id_to_remove \in DOMAIN table),
             [store EXCEPT !.video_details =
                [id \in DOMAIN table |->
                    IF id = id_to_remove THEN [table[id] EXCEPT !.favoriteDate = None]
                    ELSE table[id]]])

\* The FavoriteItem list_favorites builds from one row.
favorite_of(id, row, now) ==
    LET title == unwrap_or(row.title, EMPTY)
    IN  FavoriteItem(id,
                     IF is_empty(Trim(title)) THEN id ELSE title,
                     row.thumb, row.network,
                     unwrap_or(parse_timestamp_to_epoch_seconds(Unwrap(row.favoriteDate)),
                               timestamp(now)))

\* Variant: the rows are listed oldest first.
favorites_order_ascending(table, order) ==
    \A i, j \in 1..Len(order) :
        i < j => ~date_less(table[order[j]].favoriteDate, table[order[i]].favoriteDate)

\* ORDER BY "favoriteDate" DESC: no row precedes a row with a later date.
favorites_order(table, order) ==
    \A i, j \in 1..Len(order) :
        i < j => ~date_less(table[order[i]].favoriteDate, table[order[j]].favoriteDate)

\* Database::list_favorites: the lists the call may return; rows with the
\* same favoriteDate come in any order.
list_favorites(store, now) ==
    LET table == store.video_details
        favorites == {id \in DOMAIN table : is_set(table[id].favoriteDate)}
        n == Cardinality(favorites)
        orders == {order \in [1..n -> favorites] :
                      /\ \A i, j \in 1..n : i # j => order[i] # order[j]
                      /\ favorites_order(table, order)}
    IN  {Ok([i \in 1..n |-> favorite_of(order[i], table[order[i]], now)]) :
            order \in orders}

\* Variant: every row is deleted.
clear_cache_data_all(store) ==
    Done(Ok(Cardinality(DOMAIN store.video_details)),
         [store EXCEPT !.video_details = EmptyMap])

\* Database::clear_cache_data
clear_cache_data(store) ==
    LET table == store.video_details
        deleted == {id \in DOMAIN table : ~is_set(table[id].favoriteDate)}
    IN  Done(Ok(Cardinality(deleted)),
             [store EXCEPT !.video_details =
                [id \in (DOMAIN table) \ deleted |-> table[id]]])

\* Database::clear_favorites
clear_favorites(store) ==
    LET table == store.video_details
        cleared == {id \in DOMAIN table : is_set(table[id].favoriteDate)}
    IN  Done(Ok(Cardinality(cleared)),
             [store EXCEPT !.video_details =
                [id \in DOMAIN table |->
                    IF id \in cleared THEN [table[id] EXCEPT !.favoriteDate = None]
                    ELSE table[id]]])

\* Database::set_meta
set_meta(store, key, value) ==
    Done(Ok(UNIT), [store EXCEPT !.user_preferences = Insert(@, key, Some(value))])

SourceServer(base_url, title) ==
    [base_url |-> base_url, title |-> title, color |-> None, icon_url |-> None]

\* Database::upsert_server
upsert_server(store, server) ==
    LET base_url == Trim(server.base_url)
    IN  IF is_empty(base_url) THEN Done(Ok(UNIT), store)
        ELSE Done(Ok(UNIT),
                  [store EXCEPT !.server_preferences =
                      Insert(@, base_url, Some(to_json(server)))])

\* The tables reset_all_data deletes from, in the order of its statements.
RESET_TABLES ==
    <<"video_details", "searches", "categories", "user_preferences",
      "server_preferences">>

\* The store after the first n DELETE statements of reset_all_data.
deleted_through(store, n) ==
    [table \in DOMAIN store |->
        IF \E i \in 1..n : RESET_TABLES[i] = table THEN EmptyMap ELSE store[table]]

\* Database::reset_all_data.  `fault` is the storage failure the call meets:
\* 0 for none, i for a failure of the i-th DELETE, 6 for a failure of the
\* commit.  A failure returns through `?`, the transaction is dropped
\* uncommitted and SQLite rolls it back.
reset_all_data(store, fault) ==
    IF fault = 0 THEN Done(Ok(UNIT), deleted_through(store, Len(RESET_TABLES)))
    ELSE Done(Err("Database"), store)

\* SQLite's lower(): the ASCII letters A-Z are folded, every other
\* character is kept.
ASCII_UPPER ==
    <<"A", "B", "C", "D", "E", "F", "G", "H", "I", "J", "K", "L", "M",
      "N", "O", "P", "Q", "R", "S", "T", "U", "V", "W", "X", "Y", "Z">>

ASCII_LOWER ==
    <<"a", "b", "c", "d", "e", "f", "g", "h", "i", "j", "k", "l", "m",
      "n", "o", "p", "q", "r", "s", "t", "u", "v", "w", "x", "y", "z">>

lower_char(c) ==
    IF \E i \in 1..Len(ASCII_UPPER) : ASCII_UPPER[i] = c
    THEN ASCII_LOWER[CHOOSE i \in 1..Len(ASCII_UPPER) : ASCII_UPPER[i] = c]
    ELSE c

lower(s) == [i \in 1..Len(s) |-> lower_char(s[i])]

RECURSIVE sync_categories_from(_, _, _)
\* Variant: INSERT OR REPLACE, which writes the row anew.
sync_categories_from_replace(table, categories, i) ==
    IF i > Len(categories) THEN table
    ELSE LET trimmed == Trim(categories[i])
             written ==
                IF is_empty(trimmed) THEN table
                ELSE Insert(table, trimmed, [name |-> trimmed, clicks |-> 0])
         IN  sync_categories_from(written, categories, i + 1)

\* The loop of sync_categories over the names, in order.
sync_categories_from(table, categories, i) ==
    IF i > Len(categories) THEN table
    ELSE LET trimmed == Trim(categories[i])
             written ==
                IF is_empty(trimmed) THEN table
                ELSE IF trimmed \in DOMAIN table
                THEN [table EXCEPT ![trimmed] = [@ EXCEPT !.name = trimmed]]
                ELSE Insert(table, trimmed, [name |-> trimmed, clicks |-> 0])
         IN  sync_categories_from(written, categories, i + 1)

\* Database::sync_categories
sync_categories(store, categories) ==
    Done(Ok(UNIT),
         [store EXCEPT !.categories = sync_categories_from(@, categories, 1)])

\* The upsert of record_search into "searches".
searched(table, query, now) ==
    IF query \in DOMAIN table
    THEN [table EXCEPT ![query] =
            [timestamp |-> now_iso(now), frequency |-> @.frequency + 1]]
    ELSE Insert(table, query, [timestamp |-> now_iso(now), frequency |-> 1])

\* The UPDATE of record_search on "categories".
clicked(table, query) ==
    [id \in DOMAIN table |->
        IF lower(table[id].name) = lower(query) \/ lower(id) = lower(query)
        THEN [table[id] EXCEPT !.clicks = @ + 1]
        ELSE table[id]]

\* Database::record_search
record_search(store, query, now) ==
    Done(Ok(UNIT),
         [store EXCEPT !.searches = searched(@, query, now),
                       !.categories = clicked(@, query)])

(***************************************************************************)
(* Operations.  `op` names the operation that produced the current state,  *)
(* `input` holds its arguments together with what the outside world did,   *)
(* `output` its result and `sent` the requests it issued, in order; `db`    *)
(* is the store file, `clock` the time in milliseconds and `budget` the    *)
(* number of steps the run may still take.  `engine` tells whether an      *)
(* Engine has been handed out on the store file (`alive`), whether the     *)
(* last init() on the file as it is ran to completion (`migrated`),        *)
(* whether the store file exists (`file`) and what file lies at the export *)
(* path (`exported`).                                                      *)
(***************************************************************************)
\* The state of the specifications that call Database and ApiClient
\* directly, on an initialised store.
NoEngine == [alive |-> FALSE, migrated |-> TRUE, file |-> TRUE, exported |-> None]

NoInput == [status |-> ApiStatusResponse(None), channel_id |-> EMPTY]

\* Engine::discover_videos_with_filters (lib.rs): the caller's channel id
\* goes through non_empty, the rest is passed on to the ApiClient; the videos
\* it returns are cached and the query is recorded.
DiscoverWith(clients, queries, pages, limits, selectionLists, nets1, nets2) ==
    /\ op = "init"
    /\ \E client \in clients, query \in queries, page \in pages, limit \in limits,
          selections \in selectionLists, net1 \in nets1,
          net2 \in nets2 :
          LET channel == non_empty(input.channel_id)
              call == discover_videos_with_filters(client, query, page, limit,
                                                   channel, selections, net1, net2)
          IN  /\ op' = "discover"
              /\ input' = [status |-> input.status, channel_id |-> input.channel_id,
                           client |-> client, query |-> query, page |-> page,
                           limit |-> limit, selections |-> selections,
                           net1 |-> net1, net2 |-> net2]
              /\ output' = call.result
              /\ sent' = call.attempts
              /\ db' = IF IsOk(call.result)
                       THEN record_search(cache_videos(db, call.result.v, clock).store,
                                          query, clock).store
                       ELSE db
              /\ UNCHANGED <<clock, budget, engine>>

\* select_channel applied to the catalog.
SelectChannel ==
    /\ op = "init"
    /\ op' = "select_channel"
    /\ output' = select_channel(input.status)
    /\ UNCHANGED <<input, sent, db, clock, budget, engine>>

(***************************************************************************)
(* SpecSelect: channel selection over every catalog of up to MaxChannels   *)
(* channels and every caller-supplied channel id.                          *)
(***************************************************************************)
ID_B_PADDED == <<" ", "b", " ">>

ChannelStatuses == {None, Some(ACTIVE), Some(STATUS_OFF)}

Channels ==
    {ApiStatusChannel(id, None, st, d, <<>>) :
        id \in {ID_A, ID_B}, st \in ChannelStatuses, d \in BOOLEAN}

StatusResponses ==
    {ApiStatusResponse(None)} \cup
    {ApiStatusResponse(Some(l)) : l \in SeqsUpTo(Channels, MaxChannels)}

ChannelIdInputs == {EMPTY, SPACE, ID_A, ID_B, ID_B_PADDED, ID_C}

QUERY_Q == <<"q">>

PlainClient == ApiClient("https://host", None)

BridgedClient == ApiClient("https://host", Some("bridge.py"))

\* One element of each video-list body shape.
RecordA == ApiVideoRecord(Some(ID_A), None, Some(<<"u">>), None, None)

RecordH == ApiVideoRecord(None, Some(<<"h">>), Some(<<"u">>), Some(<<"t">>), Some(<<"n">>))

\* The outside world of SpecSelect: the catalog is served directly, through
\* the bridge after a 429, or not at all; the videos request is answered.
SelectNets1(catalog) ==
    {Response(200, StatusBody(TRUE, catalog), Err("Process")),
     Response(429, StatusBody(FALSE, catalog), Ok(StatusBody(TRUE, catalog))),
     TransportError(Err("Process"))}

SelectNets2 ==
    {Response(200, ObjectBody(ArrayMember(<<RecordElem(RecordA)>>), AbsentMember),
              Err("Process")),
     Response(500, InvalidBody, Err("Process"))}

SelectDiscover ==
    DiscoverWith({BridgedClient}, {QUERY_Q}, {1}, {10}, {<<>>},
                 SelectNets1(input.status), SelectNets2)

InitSelect ==
    /\ op = "init"
    /\ input \in [status : StatusResponses, channel_id : ChannelIdInputs]
    /\ output = None
    /\ sent = <<>>
    /\ db = EmptyStore
    /\ clock = 0
    /\ budget = 1
    /\ engine = NoEngine

NextSelect == SelectChannel \/ SelectDiscover

SpecSelect == InitSelect /\ [][NextSelect]_vars

(***************************************************************************)
(* SpecPayload: build_videos_payload over every channel of up to           *)
(* MaxOptions options, "sort" with up to MaxChoices choices, and every     *)
(* list of up to MaxSelections caller selections.                          *)
(***************************************************************************)
SORT_PADDED == <<" ", "s", "o", "r", "t">>

LATEST_PADDED == <<"l", "a", "t", "e", "s", "t", " ">>

Choices == {ApiStatusChoice(id) : id \in {VIEWS, LATEST}}

\* "sort" with every choice list, "dur" with and without a "latest" choice
\* and without any choice, and one option each under a blank id and under an
\* id that only trimming would turn into "sort".
Options ==
    {ApiStatusChannelOption(SORT, choices) : choices \in SeqsUpTo(Choices, MaxChoices)}
    \cup {ApiStatusChannelOption(DUR, <<ApiStatusChoice(LATEST), ApiStatusChoice(VIEWS)>>),
          ApiStatusChannelOption(DUR, <<ApiStatusChoice(VIEWS)>>),
          ApiStatusChannelOption(DUR, <<>>),
          ApiStatusChannelOption(SPACE, <<ApiStatusChoice(VIEWS), ApiStatusChoice(LATEST)>>),
          ApiStatusChannelOption(SORT_PADDED, <<ApiStatusChoice(VIEWS), ApiStatusChoice(LATEST)>>)}

\* A padded valid choice, an unknown choice, a choice for an option the
\* channel may not have, and a blank choice.
Selections ==
    {FilterSelection(SORT_PADDED, LATEST_PADDED), FilterSelection(SORT, BOGUS),
     FilterSelection(DUR, VIEWS), FilterSelection(SORT, SPACE)}

BuildVideosPayload ==
    /\ op = "init"
    /\ op' = "build_videos_payload"
    /\ output' = build_videos_payload(input.channel, input.query, input.page,
                                      input.limit, input.selections)
    /\ UNCHANGED <<input, sent, db, clock, budget, engine>>

InitPayload ==
    /\ op = "init"
    /\ \E options \in SeqsUpTo(Options, MaxOptions),
          selections \in SeqsUpTo(Selections, MaxSelections) :
          input = [channel |-> ApiStatusChannel(ID_A, None, None, TRUE, options),
                   query |-> QUERY_Q, page |-> 12, limit |-> 10,
                   selections |-> selections]
    /\ output = None
    /\ sent = <<>>
    /\ db = EmptyStore
    /\ clock = 0
    /\ budget = 1
    /\ engine = NoEngine

NextPayload == BuildVideosPayload

SpecPayload == InitPayload /\ [][NextPayload]_vars

(***************************************************************************)
(* SpecParse: parse_videos over every body whose arrays hold up to         *)
(* MaxRecords elements.                                                    *)
(***************************************************************************)
RecordElems == {RecordElem(RecordA), RecordElem(RecordH), IllTypedElem}

NestedElems ==
    {ArrayElem(l) : l \in SeqsUpTo({RecordElem(RecordA), IllTypedElem}, 1)}

Members ==
    {AbsentMember, NonArrayMember} \cup
    {ArrayMember(l) : l \in SeqsUpTo(RecordElems \cup {ScalarElem}, MaxRecords)}

Bodies ==
    {InvalidBody} \cup
    {ObjectBody(v, i) : v \in Members, i \in Members} \cup
    {ArrayBody(l) :
        l \in SeqsUpTo(RecordElems \cup NestedElems \cup {ScalarElem}, MaxRecords)}

\* parse_videos applied to the body.
ParseVideos ==
    /\ op = "init"
    /\ op' = "parse_videos"
    /\ output' = parse_videos(input.body, input.default_channel_id)
    /\ UNCHANGED <<input, sent, db, clock, budget, engine>>

IsRecordElem(elem) == elem.kind = "record"

\* parse_videos applied to one list of records sent in each envelope shape
\* and as a bare array.
ParseShapes ==
    /\ op = "init"
    /\ input.body.shape = "array"
    /\ \A i \in 1..Len(input.body.elems) : IsRecordElem(input.body.elems[i])
    /\ op' = "parse_shapes"
    /\ LET records == ArrayMember(input.body.elems)
           channel == input.default_channel_id
       IN  output' =
             [videos |-> parse_videos(ObjectBody(records, AbsentMember), channel),
              items |-> parse_videos(ObjectBody(AbsentMember, records), channel),
              items_after_empty_videos |->
                  parse_videos(ObjectBody(ArrayMember(<<>>), records), channel),
              bare |-> parse_videos(input.body, channel)]
    /\ UNCHANGED <<input, sent, db, clock, budget, engine>>

InitParse ==
    /\ op = "init"
    /\ input \in [body : Bodies, default_channel_id : {ID_C}]
    /\ output = None
    /\ sent = <<>>
    /\ db = EmptyStore
    /\ clock = 0
    /\ budget = 1
    /\ engine = NoEngine

NextParse == ParseVideos \/ ParseShapes

SpecParse == InitParse /\ [][NextParse]_vars

(***************************************************************************)
(* SpecRecord: map_video_record over records whose id, content hash and    *)
(* page URL are each absent, empty, whitespace or a proper value.          *)
(***************************************************************************)
FieldValues(proper) == {None, Some(EMPTY), Some(SPACE), Some(proper)}

Records ==
    {ApiVideoRecord(id, hashed_url, url, title, network) :
        id \in FieldValues(<<"i">>), hashed_url \in FieldValues(<<"h">>),
        url \in FieldValues(<<"u">>), title \in {None, Some(<<"t">>)},
        network \in {None, Some(<<"n">>)}}

MapVideoRecord ==
    /\ op = "init"
    /\ op' = "map_video_record"
    /\ output' = map_video_record(input.record, input.default_channel_id)
    /\ UNCHANGED <<input, sent, db, clock, budget, engine>>

InitRecord ==
    /\ op = "init"
    /\ input \in [record : Records, default_channel_id : {ID_C}]
    /\ output = None
    /\ sent = <<>>
    /\ db = EmptyStore
    /\ clock = 0
    /\ budget = 1
    /\ engine = NoEngine

NextRecord == MapVideoRecord

SpecRecord == InitRecord /\ [][NextRecord]_vars

(***************************************************************************)
(* Spec: fetch_status and discover against a provider that holds one of a  *)
(* few catalogs, with every behaviour of the network and of the bridge.    *)
(***************************************************************************)
HttpStatuses == {200, 204, 301, 400, 403, 404, 429, 500, 503}

SortOption ==
    ApiStatusChannelOption(SORT, <<ApiStatusChoice(VIEWS), ApiStatusChoice(LATEST)>>)

LegacyCatalog ==
    [ApiStatusResponse(None) EXCEPT !.id = Some(<<"f">>), !.color = Some(<<"g">>),
                                    !.categories = Some(<<<<"k">>>>)]

OneChannelCatalog ==
    [ApiStatusResponse(Some(<<ApiStatusChannel(ID_A, Some(<<"A">>), Some(ACTIVE),
                                               TRUE, <<SortOption>>)>>))
        EXCEPT !.api_version = Some(<<"2">>), !.name = Some(<<"N">>)]

TwoChannelCatalog ==
    ApiStatusResponse(Some(<<ApiStatusChannel(ID_A, None, None, FALSE, <<>>),
                             ApiStatusChannel(ID_B, None, Some(ACTIVE), FALSE,
                                              <<SortOption>>)>>))

FlowCatalogs == {LegacyCatalog, OneChannelCatalog, TwoChannelCatalog}

UndecodableStatus == StatusBody(FALSE, ApiStatusResponse(None))

StatusBodies == {StatusBody(TRUE, c) : c \in FlowCatalogs} \cup {UndecodableStatus}

VideoBodies ==
    {InvalidBody,
     ObjectBody(AbsentMember, ArrayMember(<<RecordElem(RecordH)>>)),
     ArrayBody(<<RecordElem(RecordA), RecordElem(RecordH)>>)}

\* Every behaviour of the outside world during one fetch_text call whose
\* response texts are taken from `bodies`.
Nets(bodies) ==
    LET fallbacks == {Err("Process")} \cup {Ok(b) : b \in bodies}
    IN  {NoRuntime} \cup
        {TransportError(fb) : fb \in fallbacks} \cup
        {Response(st, b, fb) : st \in HttpStatuses, b \in bodies, fb \in fallbacks}

\* The behaviours during the status request of a discover call: the catalog
\* the provider holds is served directly or through the bridge, or the
\* request fails.
FlowNets1(catalog) ==
    {Response(200, StatusBody(TRUE, catalog), Err("Process")),
     Response(200, UndecodableStatus, Err("Process")),
     Response(429, UndecodableStatus, Ok(StatusBody(TRUE, catalog))),
     Response(503, UndecodableStatus, Err("Process")),
     Response(404, UndecodableStatus, Ok(StatusBody(TRUE, catalog))),
     TransportError(Ok(StatusBody(TRUE, catalog))),
     NoRuntime}

\* ApiClient::fetch_status, reached through Engine::probe_status.
FetchStatus ==
    /\ op = "init"
    /\ \E client \in {PlainClient, BridgedClient}, net \in Nets(StatusBodies) :
          LET call == fetch_status(client, net)
          IN  /\ op' = "fetch_status"
              /\ input' = [status |-> input.status, channel_id |-> input.channel_id,
                           client |-> client, net1 |-> net]
              /\ output' = call.result
              /\ sent' = call.attempts
              /\ UNCHANGED <<db, clock, budget, engine>>

Discover ==
    DiscoverWith({PlainClient, BridgedClient}, {QUERY_Q}, {1, 12}, {10},
                 {<<>>, <<FilterSelection(SORT, LATEST)>>},
                 FlowNets1(input.status), Nets(VideoBodies))

Init ==
    /\ op = "init"
    /\ input \in [status : FlowCatalogs, channel_id : {EMPTY, ID_B}]
    /\ output = None
    /\ sent = <<>>
    /\ db = EmptyStore
    /\ clock = 0
    /\ budget = 1
    /\ engine = NoEngine

Next == FetchStatus \/ Discover

Spec == Init /\ [][Next]_vars

(***************************************************************************)
(* SpecVideos: the operations on "video_details" in any order, with time   *)
(* passing in between, in runs of up to MaxCalls steps, on a new store and *)
(* on stores that import_from brought in from another file.  After a Tick  *)
(* `op`, `input` and `output` still describe the last operation.           *)
(***************************************************************************)
MaxCalls == 4

MaxSeconds == 2

URL_U == <<"u">>

URL_W == <<"w">>

ID_I == <<"i">>

ID_J == <<"j">>

VideoA == VideoItem(ID_A, <<"t">>, URL_U)

\* The same id with another page URL and a blank title.
VideoA2 == VideoItem(ID_A, SPACE, URL_W)

VideoB == VideoItem(ID_B, <<"s">>, URL_U)

ResolvedA == ResolvedVideo(ID_A, <<"T">>, URL_U, <<"x">>)

\* A resolved video without id and title.
ResolvedBlank == ResolvedVideo(SPACE, EMPTY, URL_W, <<"y">>)

Batches == {<<VideoA>>, <<VideoA2, VideoB>>}

PageUrls == {URL_U, URL_W}

MaxAges == {0, 1}

\* An imported file whose resolved entry carries no cacheDate.
ImportedUndated ==
    [EmptyStore EXCEPT !.video_details =
        Insert(EmptyMap, ID_I,
               [DefaultRow(URL_U) EXCEPT !.allFormats = Some(to_json(ResolvedA))])]

\* An imported file with a blank favoriteDate, a cacheDate that is no
\* timestamp and a payload that is no JSON.
ImportedOdd ==
    [EmptyStore EXCEPT !.video_details =
        Insert(Insert(EmptyMap, ID_I,
                      [DefaultRow(URL_U) EXCEPT
                          !.favoriteDate = Some(BLANK_DATE),
                          !.allFormats = Some(to_json(ResolvedA)),
                          !.cacheDate = Some(OTHER_DATE)]),
               ID_J,
               [DefaultRow(URL_W) EXCEPT
                   !.favoriteDate = Some(Rfc3339(0)),
                   !.allFormats = Some(OTHER_JSON),
                   !.cacheDate = Some(Rfc3339(0))])]

VideoStores == {EmptyStore, ImportedUndated, ImportedOdd}

\* A store operation was called: its name, arguments and result are kept
\* and the store is left as the operation leaves it.
Called(name, arguments, done) ==
    /\ op' = name
    /\ input' = arguments
    /\ output' = done.result
    /\ db' = done.store
    /\ budget' = budget - 1
    /\ UNCHANGED <<sent, clock, engine>>

CacheVideos ==
    /\ budget > 0
    /\ \E videos \in Batches :
          Called("cache_videos", [videos |-> videos], cache_videos(db, videos, clock))

CacheResolvedVideo ==
    /\ budget > 0
    /\ \E page_url \in PageUrls, video \in {ResolvedA, ResolvedBlank} :
          Called("cache_resolved_video", [page_url |-> page_url, video |-> video],
                 cache_resolved_video(db, page_url, video, clock))

GetCachedResolvedVideo ==
    /\ budget > 0
    /\ \E page_url \in PageUrls, max_age_seconds \in MaxAges :
          \E result \in get_cached_resolved_video(db, page_url, max_age_seconds, clock) :
              Called("get_cached_resolved_video",
                     [page_url |-> page_url, max_age_seconds |-> max_age_seconds],
                     Done(result, db))

AddFavorite ==
    /\ budget > 0
    /\ \E video \in {VideoA, VideoA2, VideoB} :
          Called("add_favorite", [video |-> video], add_favorite(db, video, clock))

RemoveFavorite ==
    /\ budget > 0
    /\ \E id \in {ID_A, ID_B, ID_C} :
          Called("remove_favorite", [video_id |-> id], remove_favorite(db, id))

ListFavorites ==
    /\ budget > 0
    /\ \E result \in list_favorites(db, clock) :
          Called("list_favorites", [none |-> UNIT], Done(result, db))

ClearCacheData ==
    /\ budget > 0
    /\ Called("clear_cache_data", [none |-> UNIT], clear_cache_data(db))

ClearFavorites ==
    /\ budget > 0
    /\ Called("clear_favorites", [none |-> UNIT], clear_favorites(db))

\* Time passes between two operations.
Tick ==
    /\ budget > 0
    /\ \E elapsed \in {500, 1500} :
          /\ clock + elapsed <= MaxSeconds * MillisPerSecond
          /\ clock' = clock + elapsed
    /\ budget' = budget - 1
    /\ UNCHANGED <<op, input, output, sent, db, engine>>

InitVideos ==
    /\ op = "init"
    /\ input = [none |-> UNIT]
    /\ output = None
    /\ sent = <<>>
    /\ db \in VideoStores
    /\ clock \in {0, 500}
    /\ budget = MaxCalls
    /\ engine = NoEngine

NextVideos ==
    \/ CacheVideos
    \/ CacheResolvedVideo
    \/ GetCachedResolvedVideo
    \/ AddFavorite
    \/ RemoveFavorite
    \/ ListFavorites
    \/ ClearCacheData
    \/ ClearFavorites
    \/ Tick

SpecVideos == InitVideos /\ [][NextVideos]_vars

(***************************************************************************)
(* Channel selection: C1, C2, C3                                           *)
(***************************************************************************)
CatalogChannels == unwrap_or(input.status.channels, <<>>)

DefaultPositions == {i \in 1..Len(CatalogChannels) : CatalogChannels[i].default}

ActivePositions ==
    {i \in 1..Len(CatalogChannels) : CatalogChannels[i].status = Some(ACTIVE)}

\* The requests of the last operation that went to the videos endpoint.
IsVideosRequest(attempt) == attempt.url.path = VIDEOS_PATH

VideosRequests == SelectSeq(sent, IsVideosRequest)

\* The `channel` entry of the payload that was sent to the videos endpoint.
RequestChannel == Unwrap(VideosRequests[1].json_body)[K_CHANNEL]

\* The catalog reached the client: the status request, directly or through
\* the bridge, returned a body that decodes.
CatalogObtained ==
    \/ /\ input.net1.runtime
       /\ input.net1.primary = "response"
       /\ is_success(input.net1.status)
       /\ input.net1.body.valid
    \/ /\ input.net1.runtime
       /\ IsSome(input.client.curl_cffi_script_path)
       /\ \/ input.net1.primary = "error"
          \/ input.net1.primary = "response" /\ input.net1.status \in {403, 429, 503}
       /\ IsOk(input.net1.fallback)
       /\ input.net1.fallback.v.valid

\* The position the spec's order of preference picks when no id is asked for.
PreferredPosition ==
    IF DefaultPositions # {} THEN Min(DefaultPositions)
    ELSE IF ActivePositions # {} THEN Min(ActivePositions)
    ELSE 1

\* C1: over a channel list with exactly one channel flagged default,
\* select_channel returns that channel, whatever its position and whatever
\* the status values of the channels.
C1_DefaultChannelIsSelected ==
    (op = "select_channel" /\ Cardinality(DefaultPositions) = 1)
        => \A i \in DefaultPositions : output = Some(CatalogChannels[i])

\* The default channel is listed after an active, non-default channel.
C1_Witness ==
    /\ op = "select_channel"
    /\ Len(CatalogChannels) = 2
    /\ DefaultPositions = {2}
    /\ ActivePositions = {1}
    /\ output = Some(CatalogChannels[2])

\* C2: with no default channel, selection returns the first active channel
\* and, if there is none, the first channel; discovery fails with NotFound
\* exactly when the catalog that was obtained has no channel list or an
\* empty one, and then nothing is sent to the videos endpoint.
C2_ActiveThenFirstAndNotFound ==
    /\ (op = "select_channel" /\ DefaultPositions = {} /\ CatalogChannels # <<>>)
         => output = Some(CatalogChannels[PreferredPosition])
    /\ (op = "discover" /\ DefaultPositions = {} /\ is_empty(Trim(input.channel_id))
           /\ VideosRequests # <<>>)
         => RequestChannel = CatalogChannels[PreferredPosition].id
    /\ op = "discover"
         => /\ output.kind = "NotFound" <=> (CatalogObtained /\ CatalogChannels = <<>>)
            /\ output.kind = "NotFound" => VideosRequests = <<>>

\* No default, the first channel is not active and the second one is: the
\* videos request carries the second channel.
C2_Witness ==
    /\ op = "discover"
    /\ is_empty(Trim(input.channel_id))
    /\ Len(CatalogChannels) = 2
    /\ DefaultPositions = {}
    /\ ActivePositions = {2}
    /\ CatalogChannels[1].id # CatalogChannels[2].id
    /\ VideosRequests # <<>>
    /\ RequestChannel = CatalogChannels[2].id

CatalogIds == {CatalogChannels[i].id : i \in 1..Len(CatalogChannels)}

\* C3 as stated: the caller's channelId is the request's channel exactly
\* when it equals the id of a catalog channel; any other channelId yields the
\* channel of the default selection, and never an error by itself.
C3_Original ==
    op = "discover" =>
        /\ VideosRequests # <<>> =>
             RequestChannel = IF input.channel_id \in CatalogIds
                              THEN input.channel_id
                              ELSE CatalogChannels[PreferredPosition].id
        /\ (CatalogObtained /\ CatalogChannels # <<>>) => output.kind # "NotFound"

\* C3 amended: the channelId is compared after trimming surrounding
\* whitespace; the trimmed id is the request's channel exactly when it is
\* non-empty and equals the id of a catalog channel, and otherwise the request
\* carries the channel of the default selection; an unknown or blank
\* channelId never makes discovery fail with NotFound by itself.
C3_TrimmedIdOrDefault ==
    op = "discover" =>
        /\ VideosRequests # <<>> =>
             RequestChannel = IF Trim(input.channel_id) \in CatalogIds
                              THEN Trim(input.channel_id)
                              ELSE CatalogChannels[PreferredPosition].id
        /\ (CatalogObtained /\ CatalogChannels # <<>>) => output.kind # "NotFound"

\* A padded channelId names the second channel while the first is the
\* default: the request carries the second channel.
C3_Witness ==
    /\ op = "discover"
    /\ input.channel_id = ID_B_PADDED
    /\ Len(CatalogChannels) = 2
    /\ DefaultPositions = {1}
    /\ CatalogChannels[1].id = ID_A
    /\ CatalogChannels[2].id = ID_B
    /\ VideosRequests # <<>>
    /\ RequestChannel = ID_B

(***************************************************************************)
(* Request payload: C4, C5                                                 *)
(***************************************************************************)
PayloadOptions == input.channel.options

ChoiceIdsOf(option) == {option.options[j].id : j \in 1..Len(option.options)}

\* The options build_videos_payload writes: non-blank id, at least one choice.
Written(i) ==
    /\ ~is_empty(Trim(PayloadOptions[i].id))
    /\ PayloadOptions[i].options # <<>>

\* Option i is the last written option carrying its id.
LastOfItsId(i) ==
    /\ Written(i)
    /\ \A k \in (i + 1)..Len(PayloadOptions) :
          Written(k) => PayloadOptions[k].id # PayloadOptions[i].id

\* The selections that name option i: both ids non-blank, the trimmed option
\* id equal to the option's id.
Naming(i) ==
    {k \in 1..Len(input.selections) :
        /\ Trim(input.selections[k].option_id) = PayloadOptions[i].id
        /\ ~is_empty(Trim(input.selections[k].choice_id))}

PayloadOptionIds == {PayloadOptions[i].id : i \in 1..Len(PayloadOptions)}

FixedKeys == {K_CHANNEL, K_QUERY, K_PAGE, K_PER_PAGE}

UnknownSelectionsStayOut ==
    \A k \in 1..Len(input.selections) :
        LET option_id == Trim(input.selections[k].option_id)
            choice_id == Trim(input.selections[k].choice_id)
        IN  /\ option_id \notin (PayloadOptionIds \cup FixedKeys)
                => option_id \notin DOMAIN output
            /\ \A i \in 1..Len(PayloadOptions) :
                  (PayloadOptions[i].id = option_id /\ LastOfItsId(i)
                      /\ choice_id \notin ChoiceIdsOf(PayloadOptions[i]))
                  => output[option_id] # choice_id

\* C5 as stated: every option with at least one choice has, under its id, one
\* of its own choice ids: an explicit choice of the caller that names the
\* option and one of its choices, else the option's default; unknown ids of
\* a selection never show up in the payload.
C5_Original ==
    op = "build_videos_payload" =>
        /\ \A i \in 1..Len(PayloadOptions) :
              PayloadOptions[i].options # <<>> =>
                LET option == PayloadOptions[i]
                    valid == {Trim(input.selections[k].choice_id) : k \in Naming(i)}
                                \cap ChoiceIdsOf(option)
                IN  /\ option.id \in DOMAIN output
                    /\ output[option.id] \in ChoiceIdsOf(option)
                    /\ valid # {} => output[option.id] \in valid
                    /\ valid = {} => output[option.id] = option.options[1].id
        /\ UnknownSelectionsStayOut

\* C5 amended: every option with a non-blank id and at least one choice that
\* is the last such option of its id has, under its id, one of its own choice
\* ids: the choice of the caller's last selection naming the option (ids
\* compared after trimming the selection's) when that is one of the option's
\* choice ids, and the option's first choice otherwise; unknown ids of a
\* selection never show up in the payload, which is always built.
C5_ValidSelectionOrFirstChoice ==
    op = "build_videos_payload" =>
        /\ \A i \in 1..Len(PayloadOptions) :
              LastOfItsId(i) =>
                LET option == PayloadOptions[i]
                    last == IF Naming(i) = {} THEN None
                            ELSE Some(Trim(input.selections[
                                    CHOOSE k \in Naming(i) :
                                        \A m \in Naming(i) : m <= k].choice_id))
                IN  /\ option.id \in DOMAIN output
                    /\ output[option.id] \in ChoiceIdsOf(option)
                    /\ output[option.id] =
                          IF IsSome(last) /\ Unwrap(last) \in ChoiceIdsOf(option)
                          THEN Unwrap(last) ELSE option.options[1].id
        /\ UnknownSelectionsStayOut
        /\ FixedKeys \subseteq DOMAIN output

\* A valid selection ("dur" -> "views", not the first choice) is honoured
\* and the selection of an unknown choice for "sort" falls back to the first
\* choice of "sort".
C5_Witness ==
    /\ op = "build_videos_payload"
    /\ Len(PayloadOptions) = 2
    /\ PayloadOptions[1] = ApiStatusChannelOption(SORT,
                              <<ApiStatusChoice(VIEWS), ApiStatusChoice(LATEST)>>)
    /\ PayloadOptions[2] = ApiStatusChannelOption(DUR,
                              <<ApiStatusChoice(LATEST), ApiStatusChoice(VIEWS)>>)
    /\ input.selections = <<FilterSelection(DUR, VIEWS), FilterSelection(SORT, BOGUS)>>
    /\ output[SORT] = VIEWS
    /\ output[DUR] = VIEWS

(***************************************************************************)
(* Video-list parsing: C6, C7, C8                                          *)
(***************************************************************************)
AllTyped(elems) ==
    \A i \in 1..Len(elems) : elems[i].kind = "record" /\ elems[i].typed

\* The normalized items of a list of well-typed record elements.
ItemsOf(elems) ==
    [i \in 1..Len(elems) |-> map_video_record(elems[i].rec, input.default_channel_id)]

\* C6: one list of records gives the same result as `videos` envelope, as
\* `items` envelope (`videos` absent or empty) and as bare array, namely the
\* normalized records in order; an object with a non-empty `videos` array
\* and an `items` array yields the records of `videos`.
C6_ShapesAgree ==
    /\ op = "parse_shapes" =>
          /\ output.videos = output.bare
          /\ output.items = output.bare
          /\ output.items_after_empty_videos = output.bare
          /\ AllTyped(input.body.elems) => output.bare = Ok(ItemsOf(input.body.elems))
    /\ (op = "parse_videos" /\ input.body.shape = "object"
          /\ input.body.videos.array /\ input.body.videos.elems # <<>>
          /\ input.body.items.array
          /\ AllTyped(input.body.videos.elems) /\ AllTyped(input.body.items.elems))
        => output = Ok(ItemsOf(input.body.videos.elems))

\* Two different records parsed in the three shapes give the same two items.
C6_Witness ==
    /\ op = "parse_shapes"
    /\ input.body.elems = <<RecordElem(RecordH), RecordElem(RecordA)>>
    /\ output.items = output.videos
    /\ output.bare = output.videos
    /\ IsOk(output.bare)
    /\ Len(output.bare.v) = 2
    /\ output.bare.v[1].id = <<"h">>
    /\ output.bare.v[2].id = ID_A

\* A member that is present decodes: it is an array of well-typed records.
MemberDecodes(member) == member.present => (member.array /\ AllTyped(member.elems))

PositionDecodes(elem) == elem.kind = "array" /\ AllTyped(elem.elems)

\* The body is an object with a `videos` or an `items` array, or a bare
\* array, and what it carries decodes.
Recognized(body) ==
    \/ /\ body.shape = "object"
       /\ (body.videos.present \/ body.items.present)
       /\ MemberDecodes(body.videos) /\ MemberDecodes(body.items)
    \/ /\ body.shape = "array"
       /\ \/ AllTyped(body.elems)
          \/ /\ Len(body.elems) <= 2
             /\ \A i \in 1..Len(body.elems) : PositionDecodes(body.elems[i])

\* The bodies the decoder takes: objects whose `videos` and `items` members
\* are each absent or an array of records (also an object with neither),
\* arrays of records, and arrays of at most two arrays of records.
Accepted(body) ==
    \/ /\ body.shape = "object"
       /\ MemberDecodes(body.videos) /\ MemberDecodes(body.items)
    \/ /\ body.shape = "array"
       /\ \/ AllTyped(body.elems)
          \/ /\ Len(body.elems) <= 2
             /\ \A i \in 1..Len(body.elems) : PositionDecodes(body.elems[i])

NonEmpty(o) == IsSome(o) /\ Unwrap(o) # EMPTY

\* C8: normalizing a record always yields an item; its id is the first
\* non-empty value among explicit id, content hash and page URL, and it is
\* empty only when all three are empty or absent.
C8_IdFallbackChain ==
    op = "map_video_record" =>
        LET r == input.record
        IN  /\ DOMAIN output = {"id", "title", "page_url", "duration_seconds",
                                "image_url", "network", "author_name",
                                "extractor", "view_count"}
            /\ NonEmpty(r.id) => output.id = Unwrap(r.id)
            /\ (~NonEmpty(r.id) /\ NonEmpty(r.hashed_url))
                  => output.id = Unwrap(r.hashed_url)
            /\ (~NonEmpty(r.id) /\ ~NonEmpty(r.hashed_url) /\ NonEmpty(r.url))
                  => output.id = Unwrap(r.url)
            /\ output.id = EMPTY
                  <=> (~NonEmpty(r.id) /\ ~NonEmpty(r.hashed_url) /\ ~NonEmpty(r.url))

\* The id is empty, the hash is there and so is the URL: the hash is the id.
C8_Witness ==
    /\ op = "map_video_record"
    /\ input.record.id = Some(EMPTY)
    /\ input.record.hashed_url = Some(<<"h">>)
    /\ input.record.url = Some(<<"u">>)
    /\ output.id = <<"h">>

(***************************************************************************)
(* Fetch bridge: C9, C10                                                   *)
(***************************************************************************)
\* The attempts of the last operation for one endpoint, by mechanism.
PrimaryAttempts(path) ==
    SelectSeq(sent, LAMBDA a : a.via = "primary" /\ a.url.path = path)

BridgeAttempts(path) ==
    SelectSeq(sent, LAMBDA a : a.via = "curl_cffi" /\ a.url.path = path)

Blocked(net) == net.primary = "response" /\ net.status \in {403, 429, 503}

\* A non-2xx answer that is not one of the three blocking statuses.
OtherFailure(net) ==
    /\ net.primary = "response"
    /\ ~(net.status >= 200 /\ net.status <= 299)
    /\ net.status \notin {403, 429, 503}

\* The fallback rule for the send call that went to `path` while the outside
\* world behaved as `net`.
FallbackRule(path, net) ==
    LET primary == PrimaryAttempts(path)
        bridge == BridgeAttempts(path)
    IN  /\ bridge # <<>> <=>
              /\ IsSome(input.client.curl_cffi_script_path)
              /\ primary # <<>>
              /\ (net.primary = "error" \/ Blocked(net))
        /\ bridge # <<>> =>
              /\ bridge[1].method = primary[1].method
              /\ bridge[1].url = primary[1].url
              /\ bridge[1].json_body = primary[1].json_body
        /\ (primary # <<>> /\ OtherFailure(net)) => output.kind = "Network"

C10_BridgedStatusEqualsDirect ==
    (op = "fetch_status" /\ input.net1.runtime /\ input.net1.primary = "response"
        /\ input.net1.status = 429)
    => /\ (IsSome(input.client.curl_cffi_script_path) /\ IsOk(input.net1.fallback))
            => output = fetch_status(input.client,
                            Response(200, input.net1.fallback.v, Err("Process"))).result
       /\ input.client.curl_cffi_script_path = None => output.kind = "Network"

\* 429 with an undecodable body, the bridge returns the two-channel catalog:
\* the summary lists both channels.
C10_Witness ==
    /\ op = "fetch_status"
    /\ input.net1.primary = "response" /\ input.net1.status = 429
    /\ input.net1.body = UndecodableStatus
    /\ IsSome(input.client.curl_cffi_script_path)
    /\ input.net1.fallback = Ok(StatusBody(TRUE, TwoChannelCatalog))
    /\ IsOk(output)
    /\ output.v.channels = <<ID_A, ID_B>>

(***************************************************************************)
(* Fetch bridge, attempts of one send call: C11                            *)
(***************************************************************************)
\* The positions in `sent` of the attempts for one endpoint, by mechanism.
Positions(via, path) ==
    {i \in 1..Len(sent) : sent[i].via = via /\ sent[i].url.path = path}

\* The send call to the videos endpoint is made when the catalog was
\* obtained and a channel could be selected.
VideosCallMade == op = "discover" /\ CatalogObtained /\ CatalogChannels # <<>>

\* What one send call may put on the wire: at most one primary attempt, at
\* most one bridge attempt, the bridge attempt after the primary one and
\* nothing for this endpoint after the bridge attempt.
AttemptsInOrder(path) ==
    /\ Cardinality(Positions("primary", path)) <= 1
    /\ Cardinality(Positions("curl_cffi", path)) <= 1
    /\ \A b \in Positions("curl_cffi", path) :
          /\ \E p \in Positions("primary", path) : p < b
          /\ \A i \in 1..Len(sent) : sent[i].url.path = path => i <= b

\* A failed bridge attempt ends the operation with the bridge's failure and
\* nothing is sent afterwards.
BridgeFailureEndsCall(path, net) ==
    \A b \in Positions("curl_cffi", path) :
        ~IsOk(net.fallback) => (output = net.fallback /\ Len(sent) = b)

\* A successful bridge attempt ends the call with the bridge's text: the
\* result of the operation is computed from that text.
BridgeSuccessEndsCall ==
    /\ (op = "fetch_status" /\ Positions("curl_cffi", STATUS_PATH) # {}
            /\ IsOk(input.net1.fallback))
        => output = IF input.net1.fallback.v.valid
                    THEN Ok(status_summary(input.net1.fallback.v.parsed))
                    ELSE Err("Serialization")
    /\ (op = "discover" /\ Positions("curl_cffi", VIDEOS_PATH) # {}
            /\ IsOk(input.net2.fallback))
        => /\ output = parse_videos(input.net2.fallback.v, RequestChannel)
           /\ sent[Len(sent)].via = "curl_cffi"

\* C11 as stated: every send call makes exactly one primary attempt and at
\* most one fallback attempt, the fallback after the primary, and ends with
\* the outcome of the fallback attempt once that has returned.
C11_Original ==
    /\ op \in {"fetch_status", "discover"} =>
          /\ Cardinality(Positions("primary", STATUS_PATH)) = 1
          /\ AttemptsInOrder(STATUS_PATH)
          /\ BridgeFailureEndsCall(STATUS_PATH, input.net1)
    /\ VideosCallMade =>
          /\ Cardinality(Positions("primary", VIDEOS_PATH)) = 1
          /\ AttemptsInOrder(VIDEOS_PATH)
          /\ BridgeFailureEndsCall(VIDEOS_PATH, input.net2)
    /\ BridgeSuccessEndsCall

\* C11 amended: every send call makes at most one primary attempt, exactly
\* one unless the async runtime cannot be built, in which case it fails with
\* a Network error without any attempt, and at most one fallback attempt,
\* the fallback after the primary; once the fallback attempt has returned
\* the call ends with its outcome and no further attempt is made.
C11_OnePrimaryAtMostOneFallback ==
    /\ op \in {"fetch_status", "discover"} =>
          /\ Cardinality(Positions("primary", STATUS_PATH)) =
                IF input.net1.runtime THEN 1 ELSE 0
          /\ ~input.net1.runtime => (output.kind = "Network" /\ sent = <<>>)
          /\ AttemptsInOrder(STATUS_PATH)
          /\ BridgeFailureEndsCall(STATUS_PATH, input.net1)
    /\ VideosCallMade =>
          /\ Cardinality(Positions("primary", VIDEOS_PATH)) =
                IF input.net2.runtime THEN 1 ELSE 0
          /\ ~input.net2.runtime =>
                (output.kind = "Network" /\ Positions("curl_cffi", VIDEOS_PATH) = {})
          /\ AttemptsInOrder(VIDEOS_PATH)
          /\ BridgeFailureEndsCall(VIDEOS_PATH, input.net2)
    /\ (op = "discover" /\ ~VideosCallMade) =>
          (Positions("primary", VIDEOS_PATH) = {} /\ Positions("curl_cffi", VIDEOS_PATH) = {})
    /\ BridgeSuccessEndsCall

\* A discover call whose videos request fails at transport level and whose
\* bridge then fails too: one primary and one bridge attempt, in that order,
\* the bridge attempt last, and the bridge's failure is the result.
C11_Witness ==
    /\ op = "discover"
    /\ input.net2.runtime /\ input.net2.primary = "error"
    /\ ~IsOk(input.net2.fallback)
    /\ Cardinality(Positions("primary", VIDEOS_PATH)) = 1
    /\ Cardinality(Positions("curl_cffi", VIDEOS_PATH)) = 1
    /\ sent[Len(sent)].via = "curl_cffi"
    /\ sent[Len(sent) - 1].via = "primary"
    /\ sent[Len(sent) - 1].url.path = VIDEOS_PATH
    /\ output = input.net2.fallback


(***************************************************************************)
(* Store claims.  StoreCall(name) is a step in which the operation `name`  *)
(* is called: the primed variables hold its arguments, its result and the  *)
(* store it leaves, the unprimed ones the store it found.                  *)
(***************************************************************************)
StoreCall(name) == op' = name /\ budget' # budget /\ clock' = clock

\* C12: cache_videos leaves favoriteDate and allFormats of every row as they
\* were, for the rows of the batch and for all others; no row disappears, and
\* a row the call creates has neither.
C12_CacheVideosKeepsFavoriteAndFormats ==
    [][StoreCall("cache_videos") =>
        LET before == db.video_details
            after == db'.video_details
        IN  /\ DOMAIN before \subseteq DOMAIN after
            /\ \A id \in DOMAIN before :
                  /\ after[id].favoriteDate = before[id].favoriteDate
                  /\ after[id].allFormats = before[id].allFormats
            /\ \A id \in DOMAIN after \ DOMAIN before :
                  /\ after[id].favoriteDate = None
                  /\ after[id].allFormats = None]_vars

\* A favorited video with a resolved payload was part of a cached batch that
\* rewrote its base columns, and is still favorited with its payload.
C12_Witness ==
    /\ op = "cache_videos"
    /\ input.videos = <<VideoA2, VideoB>>
    /\ ID_A \in DOMAIN db.video_details
    /\ db.video_details[ID_A].url = URL_W
    /\ is_set(db.video_details[ID_A].favoriteDate)
    /\ db.video_details[ID_A].allFormats = Some(to_json(ResolvedA))


\* C13: cache_resolved_video(page_url, resolved) on a store with a row of
\* that url creates no row and changes no id and no favoriteDate; on a store
\* without such a row the entry is afterwards found under resolved.id, or
\* under "resolved:<page_url>" when resolved.id is blank, and no other row is
\* created; in both cases the rows there were keep their favoriteDate.
C13_ResolvedEntryByUrlThenById ==
    [][StoreCall("cache_resolved_video") =>
        LET before == db.video_details
            after == db'.video_details
            page_url == input'.page_url
            resolved == input'.video
            entry_id == IF is_empty(Trim(resolved.id))
                        THEN RESOLVED_PREFIX \o page_url ELSE resolved.id
        IN  /\ \A id \in DOMAIN before :
                  /\ id \in DOMAIN after
                  /\ after[id].favoriteDate = before[id].favoriteDate
            /\ IF \E id \in DOMAIN before : before[id].url = page_url
               THEN DOMAIN after = DOMAIN before
               ELSE /\ DOMAIN after = DOMAIN before \cup {entry_id}
                    /\ after[entry_id].url = page_url
                    /\ after[entry_id].allFormats = Some(to_json(resolved))]_vars

\* A resolved video without id was cached for a page URL no row had, next to
\* a favorite: the entry stands under the synthesized id and the favorite is
\* as it was.
C13_Witness ==
    /\ op = "cache_resolved_video"
    /\ input.video = ResolvedBlank
    /\ input.page_url = URL_W
    /\ DOMAIN db.video_details = {ID_A, RESOLVED_PREFIX \o URL_W}
    /\ db.video_details[RESOLVED_PREFIX \o URL_W].allFormats = Some(to_json(ResolvedBlank))
    /\ db.video_details[ID_A].url = URL_U
    /\ is_set(db.video_details[ID_A].favoriteDate)


\* The rows get_cached_resolved_video can select for a page URL, and the
\* time, in milliseconds, at which the entry of `page_url` was stored.
EntriesOf(store, page_url) ==
    {id \in DOMAIN store.video_details :
        /\ store.video_details[id].url = page_url
        /\ has_payload(store.video_details[id].allFormats)}

StoredAt(store, page_url) ==
    Unwrap(store.video_details[CHOOSE id \in EntriesOf(store, page_url) : TRUE].cacheDate).ms

\* A step in which get_cached_resolved_video(u, m) is the first operation
\* after cache_resolved_video(u, r), whatever time passed in between.
ReadsWhatWasCached ==
    /\ op = "cache_resolved_video"
    /\ StoreCall("get_cached_resolved_video")
    /\ input'.page_url = input.page_url
    /\ input'.max_age_seconds >= 0

ReturnsCached(result, resolved) ==
    /\ IsOk(result)
    /\ IsSome(result.v)
    /\ Unwrap(result.v).stream_url = resolved.stream_url
    /\ Unwrap(result.v).title = resolved.title

\* C14 as stated: read right after it was written the entry comes back with
\* the stream URL and title cached, and once more than max_age_seconds
\* seconds lie between the stored cacheDate and the time of the read the
\* result is absent.
C14_Original ==
    [][ReadsWhatWasCached =>
        LET elapsed == clock - StoredAt(db, input.page_url)
        IN  /\ elapsed = 0 => ReturnsCached(output', input.video)
            /\ elapsed > input'.max_age_seconds * MillisPerSecond
                  => output' = Ok(None)]_vars

\* C14: get_cached_resolved_video(u, m), m >= 0, as the first operation
\* after cache_resolved_video(u, r) compares whole seconds: it returns r's
\* stream URL and title when the second of the read is at most m after the
\* second of the stored cacheDate, and absent when it is more than m after.
C14_FreshBySecondsThenAbsent ==
    [][ReadsWhatWasCached =>
        LET age == (clock \div MillisPerSecond)
                     - (StoredAt(db, input.page_url) \div MillisPerSecond)
        IN  IF age <= input'.max_age_seconds
            THEN ReturnsCached(output', input.video)
            ELSE output' = Ok(None)]_vars

\* An entry stored half a second before a second ends was read, with
\* max_age_seconds 0, half a second later, and was absent.
C14_Witness ==
    /\ op = "get_cached_resolved_video"
    /\ input.max_age_seconds = 0
    /\ output = Ok(None)
    /\ clock = MillisPerSecond
    /\ EntriesOf(db, input.page_url) # {}
    /\ \A id \in EntriesOf(db, input.page_url) :
          db.video_details[id].cacheDate = Some(Rfc3339(500))


\* A cacheDate that gives no time: none stored, or a text that is no
\* timestamp.
Unparsable(date) ==
    \/ date = None
    \/ parse_timestamp_to_epoch_seconds(Unwrap(date)) = None

\* The entry of a row is a miss for a read at `now` with `max_age_seconds`.
IsMiss(row, max_age_seconds, now) ==
    \/ Unparsable(row.cacheDate)
    \/ timestamp(now) - Unwrap(parse_timestamp_to_epoch_seconds(Unwrap(row.cacheDate)))
          > max_age_seconds
    \/ from_str_ResolvedVideo(Unwrap(row.allFormats)) = None

\* C15: get_cached_resolved_video leaves the store as it is, and returns
\* absent, not an error, when no row has the URL, when the rows with the URL
\* have no payload, and when the entries with the URL have a cacheDate that
\* cannot be parsed, are older than max_age_seconds or have a payload that
\* cannot be decoded.
C15_MissIsAbsentNotError ==
    [][StoreCall("get_cached_resolved_video") =>
        LET entries == EntriesOf(db, input'.page_url)
        IN  /\ db' = db
            /\ (\A id \in entries :
                    IsMiss(db.video_details[id], input'.max_age_seconds, clock))
                  => output' = Ok(None)]_vars


\* The ids a listing names.
ListedIds(result) == {result.v[i].video_id : i \in 1..Len(result.v)}

\* C16: remove_favorite deletes no row and changes no column but
\* favoriteDate; called for v.id as the first operation after
\* add_favorite(v), it leaves the row of v.id with its url, allFormats and
\* cacheDate as they were, and list_favorites no longer names v.id.
C16_RemoveOnlyClearsTheFlag ==
    [][StoreCall("remove_favorite") =>
        LET before == db.video_details
            after == db'.video_details
            id == input'.video_id
        IN  /\ DOMAIN after = DOMAIN before
            /\ \A row \in DOMAIN before :
                  [after[row] EXCEPT !.favoriteDate = None]
                     = [before[row] EXCEPT !.favoriteDate = None]
            /\ (op = "add_favorite" /\ input.video.id = id) =>
                  /\ id \in DOMAIN after
                  /\ after[id].url = before[id].url
                  /\ after[id].allFormats = before[id].allFormats
                  /\ after[id].cacheDate = before[id].cacheDate
                  /\ \A result \in list_favorites(db', clock') :
                        id \notin ListedIds(result)]_vars

\* A video with a cached stream was made a favorite and removed again: its
\* row still holds the stream and what add_favorite wrote, without the flag.
C16_Witness ==
    /\ op = "remove_favorite"
    /\ input.video_id = ID_A
    /\ output = Ok(TRUE)
    /\ ID_A \in DOMAIN db.video_details
    /\ db.video_details[ID_A].favoriteDate = None
    /\ db.video_details[ID_A].rawData = Some(to_json(VideoA))
    /\ db.video_details[ID_A].allFormats = Some(to_json(ResolvedA))
    /\ is_set(db.video_details[ID_A].cacheDate)


\* The favorites of a store: each favorited id with the date of its mark.
Favorites(store) ==
    {id \in DOMAIN store.video_details : is_set(store.video_details[id].favoriteDate)}

FavoriteDates(store) ==
    [id \in Favorites(store) |-> store.video_details[id].favoriteDate]

\* What a listing must be for the store it was read from: the favorites,
\* each once, none before one marked later, blank titles replaced by the id.
ListsFavorites(result, store) ==
    LET table == store.video_details
        listed == result.v
    IN  /\ IsOk(result)
        /\ ListedIds(result) = Favorites(store)
        /\ Len(listed) = Cardinality(Favorites(store))
        /\ \A i, j \in 1..Len(listed) :
              i < j => ~date_less(table[listed[i].video_id].favoriteDate,
                                  table[listed[j].video_id].favoriteDate)
        /\ \A i \in 1..Len(listed) :
              LET title == unwrap_or(table[listed[i].video_id].title, EMPTY)
              IN  listed[i].title = IF is_empty(Trim(title))
                                    THEN listed[i].video_id ELSE title

C18_ClearCacheSparesFavorites ==
    [][StoreCall("clear_cache_data") =>
        LET before == db.video_details
            after == db'.video_details
        IN  /\ DOMAIN after = Favorites(db)
            /\ output' = Ok(Cardinality(DOMAIN before \ Favorites(db)))
            /\ \A id \in Favorites(db) : after[id] = before[id]
            /\ list_favorites(db', clock') = list_favorites(db, clock)]_vars

\* An imported store with a favorite and a row whose favoriteDate is blank
\* was cleared: one row was deleted and the favorite is left.
C18_Witness ==
    /\ op = "clear_cache_data"
    /\ output = Ok(1)
    /\ DOMAIN db.video_details = {ID_J}
    /\ db.video_details[ID_J] = ImportedOdd.video_details[ID_J]


(***************************************************************************)
(* Legacy migration (db.rs migrate_legacy_schema).  A legacy table is the  *)
(* sequence of its rows in the order its SELECT returns them.  Every row   *)
(* is written to the unified tables by statements of its own, outside any  *)
(* transaction; no statement changes or drops a legacy table.  The times   *)
(* of the legacy rows are within the range of chrono, where timestamp_opt  *)
(* gives a single time.                                                    *)
(***************************************************************************)
LOCAL_PREFIX ==
    <<"l", "o", "c", "a", "l", ":", "/", "/", "v", "i", "d", "e", "o", "/">>

fallback_url(id) == LOCAL_PREFIX \o id

epoch_seconds_to_iso(epoch_seconds) == Rfc3339(epoch_seconds * MillisPerSecond)

\* serde_json::from_str::<VideoItem>(..).ok(): the three String fields are
\* required, the Option fields default to None.
from_str_VideoItem(text) ==
    IF /\ text.json = "object"
       /\ {"id", "title", "page_url"} \subseteq DOMAIN text.members
    THEN Some([id |-> text.members.id,
               title |-> text.members.title,
               page_url |-> text.members.page_url,
               duration_seconds |-> Member(text.members, "duration_seconds"),
               image_url |-> Member(text.members, "image_url"),
               network |-> Member(text.members, "network"),
               author_name |-> Member(text.members, "author_name"),
               extractor |-> Member(text.members, "extractor"),
               view_count |-> Member(text.members, "view_count")])
    ELSE None

\* One row of "engine_meta": the upsert into "user_preferences".
migrate_meta_row(store, row) ==
    [store EXCEPT !.user_preferences = Insert(@, row.key, Some(row.value))]

\* Variant: the upsert leaves the url of a row that exists as it is.
migrate_video_cache_row_keeps_url(store, row) ==
    LET table == store.video_details
        updated_iso == epoch_seconds_to_iso(row.updated_at)
        parsed == from_str_VideoItem(row.payload_json)
        url == IF IsSome(parsed) THEN Unwrap(parsed).page_url
               ELSE fallback_url(row.video_id)
        title == IF IsSome(parsed) THEN Unwrap(parsed).title ELSE row.video_id
        thumb == IF IsSome(parsed) THEN Unwrap(parsed).image_url ELSE None
        views == IF IsSome(parsed) THEN views_of(Unwrap(parsed)) ELSE None
        duration == IF IsSome(parsed) THEN Unwrap(parsed).duration_seconds ELSE None
        uploader == IF IsSome(parsed) THEN Unwrap(parsed).author_name ELSE None
        network == IF IsSome(parsed) THEN Unwrap(parsed).network ELSE None
        written ==
            IF row.video_id \in DOMAIN table
            THEN [table EXCEPT ![row.video_id] =
                    [@ EXCEPT !.title = Some(title), !.thumb = thumb,
                              !.views = views, !.duration = duration,
                              !.uploader = uploader, !.network = network,
                              !.lastUpdated = Some(updated_iso),
                              !.rawData = Some(row.payload_json),
                              !.cacheDate = Some(updated_iso)]]
            ELSE Insert(table, row.video_id,
                        [DefaultRow(url) EXCEPT
                            !.title = Some(title), !.thumb = thumb,
                            !.dateAdded = Some(updated_iso), !.views = views,
                            !.duration = duration, !.uploader = uploader,
                            !.network = network,
                            !.lastUpdated = Some(updated_iso),
                            !.rawData = Some(row.payload_json),
                            !.cacheDate = Some(updated_iso)])
    IN  [store EXCEPT !.video_details = written]

\* One row of "video_cache": the upsert by id of the base columns.
migrate_video_cache_row(store, row) ==
    LET table == store.video_details
        updated_iso == epoch_seconds_to_iso(row.updated_at)
        parsed == from_str_VideoItem(row.payload_json)
        url == IF IsSome(parsed) THEN Unwrap(parsed).page_url
               ELSE fallback_url(row.video_id)
        title == IF IsSome(parsed) THEN Unwrap(parsed).title ELSE row.video_id
        thumb == IF IsSome(parsed) THEN Unwrap(parsed).image_url ELSE None
        views == IF IsSome(parsed) THEN views_of(Unwrap(parsed)) ELSE None
        duration == IF IsSome(parsed) THEN Unwrap(parsed).duration_seconds ELSE None
        uploader == IF IsSome(parsed) THEN Unwrap(parsed).author_name ELSE None
        network == IF IsSome(parsed) THEN Unwrap(parsed).network ELSE None
        written ==
            IF row.video_id \in DOMAIN table
            THEN [table EXCEPT ![row.video_id] =
                    [@ EXCEPT !.url = url, !.title = Some(title), !.thumb = thumb,
                              !.views = views, !.duration = duration,
                              !.uploader = uploader, !.network = network,
                              !.lastUpdated = Some(updated_iso),
                              !.rawData = Some(row.payload_json),
                              !.cacheDate = Some(updated_iso)]]
            ELSE Insert(table, row.video_id,
                        [DefaultRow(url) EXCEPT
                            !.title = Some(title), !.thumb = thumb,
                            !.dateAdded = Some(updated_iso), !.views = views,
                            !.duration = duration, !.uploader = uploader,
                            !.network = network,
                            !.lastUpdated = Some(updated_iso),
                            !.rawData = Some(row.payload_json),
                            !.cacheDate = Some(updated_iso)])
    IN  [store EXCEPT !.video_details = written]

\* One row of "favorites": the upsert by id of title, thumb, network and
\* favoriteDate; a new row takes the fallback URL.
migrate_favorites_row(store, row) ==
    LET table == store.video_details
        favorite_date == epoch_seconds_to_iso(row.added_at)
        written ==
            IF row.video_id \in DOMAIN table
            THEN [table EXCEPT ![row.video_id] =
                    [@ EXCEPT !.title = Some(row.title), !.thumb = row.image_url,
                              !.network = row.network,
                              !.favoriteDate = Some(favorite_date),
                              !.lastUpdated = Some(favorite_date)]]
            ELSE Insert(table, row.video_id,
                        [DefaultRow(fallback_url(row.video_id)) EXCEPT
                            !.title = Some(row.title), !.thumb = row.image_url,
                            !.network = row.network,
                            !.favoriteDate = Some(favorite_date),
                            !.lastUpdated = Some(favorite_date),
                            !.dateAdded = Some(favorite_date)])
    IN  [store EXCEPT !.video_details = written]

\* Variant: a row that matches no URL is always written under the
\* synthesized id.
migrate_resolved_cache_row_synthesized(store, row) ==
    LET table == store.video_details
        updated_iso == epoch_seconds_to_iso(row.updated_at)
        parsed == from_str_ResolvedVideo(row.payload_json)
        parsed_title ==
            IF IsSome(parsed) THEN non_empty_str(Unwrap(parsed).title) ELSE None
        id == format_resolved_cache_id(row.page_url)
        title == unwrap_or(parsed_title, RESOLVED_VIDEO)
        matching == {other \in DOMAIN table : table[other].url = row.page_url}
        written ==
            IF matching # {}
            THEN [other \in DOMAIN table |->
                    IF other \in matching
                    THEN [table[other] EXCEPT
                            !.allFormats = Some(row.payload_json),
                            !.cacheDate = Some(updated_iso),
                            !.lastUpdated = Some(updated_iso),
                            !.title = Some(title)]
                    ELSE table[other]]
            ELSE IF id \in DOMAIN table
            THEN [table EXCEPT ![id] =
                    [@ EXCEPT !.url = row.page_url, !.title = Some(title),
                              !.lastUpdated = Some(updated_iso),
                              !.cacheDate = Some(updated_iso),
                              !.allFormats = Some(row.payload_json),
                              !.rawData = Some(row.payload_json)]]
            ELSE Insert(table, id,
                        [DefaultRow(row.page_url) EXCEPT
                            !.title = Some(title),
                            !.lastUpdated = Some(updated_iso),
                            !.cacheDate = Some(updated_iso),
                            !.allFormats = Some(row.payload_json),
                            !.rawData = Some(row.payload_json),
                            !.dateAdded = Some(updated_iso)])
    IN  [store EXCEPT !.video_details = written]

\* One row of "resolved_cache": the UPDATE by page URL and, when it changed
\* no row, the upsert by id.
migrate_resolved_cache_row(store, row) ==
    LET table == store.video_details
        updated_iso == epoch_seconds_to_iso(row.updated_at)
        parsed == from_str_ResolvedVideo(row.payload_json)
        parsed_id == IF IsSome(parsed) THEN non_empty_str(Unwrap(parsed).id) ELSE None
        parsed_title ==
            IF IsSome(parsed) THEN non_empty_str(Unwrap(parsed).title) ELSE None
        id == unwrap_or(parsed_id, format_resolved_cache_id(row.page_url))
        title == unwrap_or(parsed_title, RESOLVED_VIDEO)
        matching == {other \in DOMAIN table : table[other].url = row.page_url}
        written ==
            IF matching # {}
            THEN [other \in DOMAIN table |->
                    IF other \in matching
                    THEN [table[other] EXCEPT
                            !.allFormats = Some(row.payload_json),
                            !.cacheDate = Some(updated_iso),
                            !.lastUpdated = Some(updated_iso),
                            !.title = Some(title)]
                    ELSE table[other]]
            ELSE IF id \in DOMAIN table
            THEN [table EXCEPT ![id] =
                    [@ EXCEPT !.url = row.page_url, !.title = Some(title),
                              !.lastUpdated = Some(updated_iso),
                              !.cacheDate = Some(updated_iso),
                              !.allFormats = Some(row.payload_json),
                              !.rawData = Some(row.payload_json)]]
            ELSE Insert(table, id,
                        [DefaultRow(row.page_url) EXCEPT
                            !.title = Some(title),
                            !.lastUpdated = Some(updated_iso),
                            !.cacheDate = Some(updated_iso),
                            !.allFormats = Some(row.payload_json),
                            !.rawData = Some(row.payload_json),
                            !.dateAdded = Some(updated_iso)])
    IN  [store EXCEPT !.video_details = written]

\* The legacy tables in the order migrate_legacy_schema takes them.
LEGACY_TABLES == <<"engine_meta", "video_cache", "favorites", "resolved_cache">>

\* The rows migrate_legacy_schema writes, in order: those of every legacy
\* table the file has.
RECURSIVE legacy_rows_from(_, _)
legacy_rows_from(store, t) ==
    IF t > Len(LEGACY_TABLES) THEN <<>>
    ELSE LET name == LEGACY_TABLES[t]
             rows == IF name \in DOMAIN store.legacy THEN store.legacy[name] ELSE <<>>
         IN  [i \in 1..Len(rows) |-> [table |-> name, row |-> rows[i]]]
                \o legacy_rows_from(store, t + 1)

legacy_rows(store) == legacy_rows_from(store, 1)

migrate_row(store, write) ==
    IF write.table = "engine_meta" THEN migrate_meta_row(store, write.row)
    ELSE IF write.table = "video_cache" THEN migrate_video_cache_row(store, write.row)
    ELSE IF write.table = "favorites" THEN migrate_favorites_row(store, write.row)
    ELSE migrate_resolved_cache_row(store, write.row)

\* The store after the first n row writes of the migration.
RECURSIVE migrated_through(_, _, _, _)
migrated_through(store, writes, i, n) ==
    IF i > n \/ i > Len(writes) THEN store
    ELSE migrated_through(migrate_row(store, writes[i]), writes, i + 1, n)

\* Database::init on a file that has the five tables, which CREATE TABLE IF
\* NOT EXISTS leaves as they are.  `fault` is the storage failure the call
\* meets: 0 for none, i for a failure of the i-th row write, which returns
\* through `?` with the writes before it made.
init(store, fault) ==
    LET writes == legacy_rows(store)
    IN  IF fault \in 1..Len(writes)
        THEN Done(Err("Database"), migrated_through(store, writes, 1, fault - 1))
        ELSE Done(Ok(UNIT), migrated_through(store, writes, 1, Len(writes)))

(***************************************************************************)
(* SpecSearch: searches, categories, preferences and the reset, in runs of *)
(* up to MaxEdits operations, on a new store, on a store that init()       *)
(* migrated from a file of the legacy generation, and on an imported store *)
(* whose category has a name other than its id.                            *)
(***************************************************************************)
MaxEdits == 3

KEY_K == <<"k">>

VALUE_V == <<"v">>

VALUE_W == <<"w">>

\* Characters outside ASCII are written by name.
E_ACUTE == <<"e-acute">>

E_ACUTE_CAPITAL == <<"E-ACUTE">>

QUERY_UPPER == <<"Q">>

\* A file of the legacy generation with one row in "engine_meta", after
\* init().
MigratedStore ==
    init([EmptyStore EXCEPT
            !.legacy = [table \in {"engine_meta"} |->
                            <<[key |-> KEY_K, value |-> VALUE_V]>>]], 0).store

\* An imported file with a category whose name differs from its id.
ImportedCategory ==
    [EmptyStore EXCEPT
        !.categories = Insert(EmptyMap, KEY_K, [name |-> QUERY_UPPER, clicks |-> 0])]

SearchStores == {EmptyStore, MigratedStore, ImportedCategory}

Queries == {QUERY_Q, QUERY_UPPER, E_ACUTE, BOGUS}

CategoryLists == {<<QUERY_Q, E_ACUTE_CAPITAL>>, <<SPACE, KEY_K>>}

\* What the storage does during reset_all_data: 0 for no failure, i for a
\* failure of the i-th DELETE, Len(RESET_TABLES) + 1 for a failure of the
\* commit.
Faults == 0..(Len(RESET_TABLES) + 1)

SyncCategories ==
    /\ budget > 0
    /\ \E categories \in CategoryLists :
          Called("sync_categories", [categories |-> categories],
                 sync_categories(db, categories))

RecordSearch ==
    /\ budget > 0
    /\ \E query \in Queries :
          Called("record_search", [query |-> query], record_search(db, query, clock))

ResetAllData ==
    /\ budget > 0
    /\ \E fault \in Faults :
          Called("reset_all_data", [fault |-> fault], reset_all_data(db, fault))

SetMeta ==
    /\ budget > 0
    /\ \E value \in {VALUE_V, VALUE_W} :
          Called("set_meta", [key |-> KEY_K, value |-> value], set_meta(db, KEY_K, value))

UpsertServer ==
    /\ budget > 0
    /\ \E base_url \in {URL_U, SPACE} :
          Called("upsert_server", [server |-> SourceServer(base_url, EMPTY)],
                 upsert_server(db, SourceServer(base_url, EMPTY)))

\* Engine::new on the store file: init() runs again.
Reopen ==
    /\ budget > 0
    /\ Called("init", [none |-> UNIT], init(db, 0))

InitSearch ==
    /\ op = "init"
    /\ input = [none |-> UNIT]
    /\ output = None
    /\ sent = <<>>
    /\ db \in SearchStores
    /\ clock = 0
    /\ budget = MaxEdits
    /\ engine = NoEngine

NextSearch ==
    \/ SyncCategories
    \/ RecordSearch
    \/ ResetAllData
    \/ SetMeta
    \/ UpsertServer
    \/ AddFavorite
    \/ Reopen

SpecSearch == InitSearch /\ [][NextSearch]_vars

\* Every table of the store file: the five of the unified schema and the
\* legacy tables the file has.
TablesOf(store) ==
    {store[RESET_TABLES[i]] : i \in 1..Len(RESET_TABLES)}
        \cup {store.legacy[table] : table \in DOMAIN store.legacy}

\* C19: after reset_all_data every table of the store file is empty, the
\* five unified tables and any other table the file has, whatever the store
\* was before; and a reset that fails leaves the store as it was.
C19_ResetEmptiesEveryTable ==
    [][StoreCall("reset_all_data") =>
        IF IsOk(output')
        THEN \A table \in TablesOf(db') : DOMAIN table = {}
        ELSE db' = db]_vars


\* Two texts are equal ignoring case: letter by letter, where the capital of
\* a letter outside ASCII folds to its small letter as those of ASCII do.
FoldCase(s) ==
    [i \in 1..Len(s) |->
        IF <<s[i]>> = E_ACUTE_CAPITAL THEN E_ACUTE[1] ELSE lower_char(s[i])]

EqualIgnoringCase(a, b) == FoldCase(a) = FoldCase(b)

\* C20: every record_search(q) succeeds, raises the frequency of the record
\* of q by one (a new record starts at one) and the clicks of every category
\* whose name or id equals q ignoring case by one, and leaves the records of
\* other queries and the other categories as they were; no other operation
\* but the reset changes a frequency or the clicks of a category.  So n
\* calls since the last reset give frequency n and n more clicks.
C20_SearchCountsAndClicks ==
    [][/\ StoreCall("record_search") =>
            LET query == input'.query
                matches(id) ==
                    \/ EqualIgnoringCase(db.categories[id].name, query)
                    \/ EqualIgnoringCase(id, query)
            IN  /\ output' = Ok(UNIT)
                /\ DOMAIN db'.searches = DOMAIN db.searches \cup {query}
                /\ db'.searches[query].frequency =
                      IF query \in DOMAIN db.searches
                      THEN db.searches[query].frequency + 1 ELSE 1
                /\ \A other \in DOMAIN db.searches \ {query} :
                      db'.searches[other] = db.searches[other]
                /\ DOMAIN db'.categories = DOMAIN db.categories
                /\ \A id \in DOMAIN db.categories :
                      db'.categories[id] =
                          IF matches(id)
                          THEN [db.categories[id] EXCEPT !.clicks = @ + 1]
                          ELSE db.categories[id]
       /\ (/\ budget' # budget
           /\ op' \notin {"record_search", "reset_all_data"})
             => /\ db'.searches = db.searches
                /\ \A id \in DOMAIN db.categories :
                      /\ id \in DOMAIN db'.categories
                      /\ db'.categories[id].clicks = db.categories[id].clicks]_vars


(***************************************************************************)
(* SpecMigrate: init() on a file of the legacy generation, whose unified   *)
(* tables are still empty.  The migration is interrupted by a storage      *)
(* failure up to MaxInterruptions times, each time after some of its row   *)
(* writes, before a run completes.                                         *)
(***************************************************************************)
MaxInterruptions == 1

LegacyMetaRows == {[key |-> KEY_K, value |-> VALUE_V]}

LegacyVideoRows ==
    {[video_id |-> ID_A, payload_json |-> to_json(VideoA), updated_at |-> 1],
     [video_id |-> ID_A, payload_json |-> OTHER_JSON, updated_at |-> 0],
     [video_id |-> ID_B, payload_json |-> to_json(VideoB), updated_at |-> 0]}

LegacyFavoriteRows ==
    {[video_id |-> ID_A, title |-> <<"f">>, image_url |-> None,
      network |-> None, added_at |-> 1],
     [video_id |-> ID_B, title |-> SPACE, image_url |-> Some(<<"i">>),
      network |-> Some(<<"n">>), added_at |-> 0]}

LegacyResolvedRows ==
    {[page_url |-> URL_U, payload_json |-> to_json(ResolvedA), updated_at |-> 1],
     [page_url |-> URL_W, payload_json |-> to_json(ResolvedA), updated_at |-> 0],
     [page_url |-> URL_W, payload_json |-> to_json(ResolvedBlank), updated_at |-> 1],
     [page_url |-> URL_U, payload_json |-> OTHER_JSON, updated_at |-> 0]}

\* A file with the four legacy tables and the unified tables as CREATE TABLE
\* leaves them.
LegacyFile(meta, videos, favorites, resolved) ==
    [EmptyStore EXCEPT
        !.legacy = [table \in {"engine_meta", "video_cache", "favorites",
                               "resolved_cache"} |->
                       IF table = "engine_meta" THEN meta
                       ELSE IF table = "video_cache" THEN videos
                       ELSE IF table = "favorites" THEN favorites
                       ELSE resolved]]

LegacyFiles ==
    {LegacyFile(meta, videos, favorites, resolved) :
        meta \in SeqsUpTo(LegacyMetaRows, 1),
        videos \in SeqsUpTo(LegacyVideoRows, 2),
        favorites \in SeqsUpTo(LegacyFavoriteRows, 2),
        resolved \in SeqsUpTo(LegacyResolvedRows, 2)}

\* init() meets a storage failure at one of its row writes.
MigrateInterrupted ==
    /\ budget > 0
    /\ ~engine.migrated
    /\ \E fault \in 1..Len(legacy_rows(db)) :
          Called("init", [fault |-> fault], init(db, fault))

\* init() runs to its end.
MigrateCompleted ==
    /\ ~engine.migrated
    /\ op' = "init"
    /\ input' = [fault |-> 0]
    /\ output' = init(db, 0).result
    /\ db' = init(db, 0).store
    /\ engine' = [engine EXCEPT !.migrated = TRUE]
    /\ UNCHANGED <<sent, clock, budget>>

InitMigrate ==
    /\ op = "open"
    /\ input = [none |-> UNIT]
    /\ output = None
    /\ sent = <<>>
    /\ db \in LegacyFiles
    /\ clock \in {0, 1500}
    /\ budget = MaxInterruptions
    /\ engine = [NoEngine EXCEPT !.migrated = FALSE]

NextMigrate ==
    \/ MigrateInterrupted
    \/ MigrateCompleted

SpecMigrate == InitMigrate /\ [][NextMigrate]_vars

\* The five unified tables of a store file.
Unified(store) == [store EXCEPT !.legacy = NoLegacyTables]

\* The file as it was before any migration: its legacy tables, which no
\* statement changes, and empty unified tables.
LegacyOnly(store) == [EmptyStore EXCEPT !.legacy = store.legacy]

\* C22: when init() has run to its end on a legacy file, after however many
\* interrupted runs that each made some of the row writes, the unified tables
\* are those that one uninterrupted init() makes of the file: the same keys,
\* each once, with the same columns.
C22_InterruptedMigrationConverges ==
    engine.migrated => Unified(db) = Unified(init(LegacyOnly(db), 0).store)

\* A migration was interrupted and then completed on a file whose favorite
\* has a cached video and a resolved stream.
C22_Witness ==
    /\ engine.migrated
    /\ budget < MaxInterruptions
    /\ IsOk(output)
    /\ Len(db.legacy["resolved_cache"]) = 2
    /\ ID_A \in DOMAIN db.video_details
    /\ is_set(db.video_details[ID_A].favoriteDate)
    /\ db.video_details[ID_A].url = URL_W
    /\ db.video_details[ID_A].allFormats = Some(to_json(ResolvedA))


\* The rows of a legacy table of the file.
LegacyRows(store, table) ==
    {store.legacy[table][i] : i \in 1..Len(store.legacy[table])}

\* C23: after init() on a file that held only legacy tables, list_favorites
\* names exactly the ids of the legacy "favorites" table, each with the
\* title, image, network and added-at time of a legacy row of that id; and
\* for every row (page_url, payload, updated_at) of the legacy
\* "resolved_cache" table get_cached_resolved_video(page_url, m) is that
\* payload when now - updated_at <= m and absent otherwise.
C23_MigratedStoreAnswersAsLegacy ==
    (engine.migrated /\ IsOk(output)) =>
        /\ \A result \in list_favorites(db, clock) :
              /\ IsOk(result)
              /\ ListedIds(result)
                    = {row.video_id : row \in LegacyRows(db, "favorites")}
              /\ \A i \in 1..Len(result.v) :
                    \E row \in LegacyRows(db, "favorites") :
                        result.v[i] = FavoriteItem(row.video_id, row.title,
                                                   row.image_url, row.network,
                                                   row.added_at)
        /\ \A row \in LegacyRows(db, "resolved_cache"), m \in MaxAges :
              get_cached_resolved_video(db, row.page_url, m, clock)
                 = {IF timestamp(clock) - row.updated_at <= m
                    THEN Ok(from_str_ResolvedVideo(row.payload_json))
                    ELSE Ok(None)}


(***************************************************************************)
(* Engine (lib.rs): construction with the boot-time update check, the      *)
(* health report, resolve_stream with the extractor (ytdlp.rs) and the     *)
(* export and import of the store file.                                    *)
(***************************************************************************)
EngineConfig(api_base_url, db_path, yt_dlp_path, python_executable) ==
    [api_base_url |-> api_base_url, db_path |-> db_path,
     yt_dlp_path |-> yt_dlp_path, python_executable |-> python_executable]

\* Variant: python_executable is not looked at.
validate_config_three_fields(config) ==
    IF \/ is_empty(Trim(config.api_base_url))
       \/ is_empty(Trim(config.db_path))
       \/ is_empty(Trim(config.yt_dlp_path))
    THEN Err("InvalidConfig")
    ELSE Ok(UNIT)

validate_config(config) ==
    IF \/ is_empty(Trim(config.api_base_url))
       \/ is_empty(Trim(config.db_path))
       \/ is_empty(Trim(config.yt_dlp_path))
       \/ is_empty(Trim(config.python_executable))
    THEN Err("InvalidConfig")
    ELSE Ok(UNIT)

YT_DLP_CURRENT ==
    <<"y", "t", "_", "d", "l", "p", "_", "c", "u", "r", "r", "e", "n", "t">>

YT_DLP_LATEST ==
    <<"y", "t", "_", "d", "l", "p", "_", "l", "a", "t", "e", "s", "t">>

YT_DLP_UPDATE_AVAILABLE ==
    <<"y", "t", "_", "d", "l", "p", "_", "u", "p", "d", "a", "t", "e", "_",
      "a", "v", "a", "i", "l", "a", "b", "l", "e">>

BOOT_CHECKED_AT ==
    <<"b", "o", "o", "t", "_", "c", "h", "e", "c", "k", "e", "d", "_", "a", "t">>

BOOT_ERROR == <<"b", "o", "o", "t", "_", "e", "r", "r", "o", "r">>

\* bool::to_string
bool_to_string(b) ==
    IF b THEN <<"t", "r", "u", "e">> ELSE <<"f", "a", "l", "s", "e">>

\* err.to_string(): the text thiserror writes for the variant, with its
\* detail; the text is written by its name.
error_to_string(kind) ==
    IF kind = "Network" THEN <<"network failure: ..">>
    ELSE IF kind = "Database" THEN <<"database failure: ..">>
    ELSE IF kind = "Serialization" THEN <<"serialization failure: ..">>
    ELSE IF kind = "Process" THEN <<"process failure: ..">>
    ELSE IF kind = "NotFound" THEN <<"not found: ..">>
    ELSE <<"invalid config: ..">>

\* trim_start_matches('v')
RECURSIVE trim_start_matches_v(_)
trim_start_matches_v(s) ==
    IF Len(s) > 0 /\ s[1] = "v" THEN trim_start_matches_v(Tail(s)) ELSE s

\* normalize_tag of updater.rs
normalize_tag(tag) == trim_start_matches_v(lower(Trim(tag)))

\* check_yt_dlp_update of updater.rs: `release` is what fetching the latest
\* release gave, the tag of the release or the failure.
YtDlpUpdateInfo(current_version, latest_version, update_available, checked_at_epoch) ==
    [current_version |-> current_version, latest_version |-> latest_version,
     update_available |-> update_available, checked_at_epoch |-> checked_at_epoch]

updater_check_yt_dlp_update(release, current_version, now) ==
    IF ~IsOk(release) THEN release
    ELSE LET latest_version == release.v
         IN  Ok(YtDlpUpdateInfo(
                    current_version, latest_version,
                    /\ IsSome(current_version)
                    /\ IsSome(latest_version)
                    /\ normalize_tag(Unwrap(current_version))
                          # normalize_tag(Unwrap(latest_version)),
                    timestamp(now)))

\* Database::get_meta: the value of the key, None for no row or NULL.
get_meta(store, key) ==
    Ok(IF key \in DOMAIN store.user_preferences
       THEN store.user_preferences[key] ELSE None)

\* Database::set_meta under storage failures: the writes of the keys in
\* `failing` fail.
set_meta_unless(store, key, value, failing) ==
    IF key \in failing THEN Done(Err("Database"), store)
    ELSE set_meta(store, key, value)

\* What the outside world does during Engine::new: the version yt-dlp
\* reports (None when it cannot be run), what fetching the latest release
\* gives, and the preference keys whose writes fail.
World(version, release, failing) ==
    [version |-> version, release |-> release, failing |-> failing]

\* Engine::check_yt_dlp_update: the three preferences are written one after
\* the other, each through `?`.
check_yt_dlp_update(store, world, now) ==
    LET checked == updater_check_yt_dlp_update(world.release, world.version, now)
        update == checked.v
        first == IF IsSome(update.current_version)
                 THEN set_meta_unless(store, YT_DLP_CURRENT,
                                      Unwrap(update.current_version), world.failing)
                 ELSE Done(Ok(UNIT), store)
        second == IF IsSome(update.latest_version)
                  THEN set_meta_unless(first.store, YT_DLP_LATEST,
                                       Unwrap(update.latest_version), world.failing)
                  ELSE Done(Ok(UNIT), first.store)
        third == set_meta_unless(second.store, YT_DLP_UPDATE_AVAILABLE,
                                 bool_to_string(update.update_available),
                                 world.failing)
    IN  IF ~IsOk(checked) THEN Done(checked, store)
        ELSE IF ~IsOk(first.result) THEN first
        ELSE IF ~IsOk(second.result) THEN second
        ELSE IF ~IsOk(third.result) THEN third
        ELSE Done(checked, third.store)

\* Engine::sync_boot_metadata
sync_boot_metadata(store, world, now) ==
    LET update == check_yt_dlp_update(store, world, now)
    IN  IF ~IsOk(update.result) THEN update
        ELSE LET written == set_meta_unless(update.store, BOOT_CHECKED_AT,
                                            to_string(update.result.v.checked_at_epoch),
                                            world.failing)
             IN  IF ~IsOk(written.result) THEN written
                 ELSE Done(Ok(UNIT), written.store)

\* The processes run and the requests sent by the boot-time check.
RELEASE_API == <<"r">>

boot_requests ==
    <<Attempt("yt-dlp", "--version", EMPTY, None),
      Attempt("reqwest", "GET", RELEASE_API, None)>>

\* What Engine::new leaves: its result, the store file, whether the file
\* was created or opened, and the processes and requests it issued.
Constructed(result, store, opened, requests) ==
    [result |-> result, store |-> store, opened |-> opened, requests |-> requests]

\* Variant: a failure of the boot-time check makes construction fail.
new_boot_check_required(config, store, fault, world, now) ==
    LET valid == validate_config(config)
        initialised == init(store, fault)
        boot == sync_boot_metadata(initialised.store, world, now)
    IN  IF ~IsOk(valid) THEN Constructed(valid, store, FALSE, <<>>)
        ELSE IF ~IsOk(initialised.result)
        THEN Constructed(initialised.result, initialised.store, TRUE, <<>>)
        ELSE Constructed(boot.result, boot.store, TRUE, boot_requests)

\* Engine::new: `fault` is the storage failure init() meets.  The result is
\* Ok(UNIT) for the Engine handed out.
new(config, store, fault, world, now) ==
    LET valid == validate_config(config)
        initialised == init(store, fault)
        boot == sync_boot_metadata(initialised.store, world, now)
        noted == set_meta_unless(boot.store, BOOT_ERROR,
                                 error_to_string(boot.result.kind), world.failing)
    IN  IF ~IsOk(valid) THEN Constructed(valid, store, FALSE, <<>>)
        ELSE IF ~IsOk(initialised.result)
        THEN Constructed(initialised.result, initialised.store, TRUE, <<>>)
        ELSE IF ~IsOk(boot.result)
        THEN Constructed(Ok(UNIT), noted.store, TRUE, boot_requests)
        ELSE Constructed(Ok(UNIT), boot.store, TRUE, boot_requests)

BridgeHealth(engine_ready, db_accessible, last_error) ==
    [engine_ready |-> engine_ready, db_accessible |-> db_accessible,
     last_error |-> last_error]

\* Engine::bridge_health: `exists` tells whether the store file exists.
bridge_health(store, exists) ==
    LET last_error == get_meta(store, BOOT_ERROR)
    IN  Ok(BridgeHealth(TRUE, exists, last_error.v))


\* What yt-dlp -J prints, decoded as YtDlpResponse: the members the engine
\* reads; a format is its url and protocol.
YtDlpFormat(url, protocol) == [url |-> url, protocol |-> protocol]

YtDlpResponse(id, title, webpage_url, url, formats) ==
    [id |-> id, title |-> title, webpage_url |-> webpage_url, url |-> url,
     thumbnail |-> None, uploader |-> None, extractor |-> None,
     duration |-> None, formats |-> formats]

\* What running yt-dlp gave: whether the process could be run at all, its
\* exit status and its output, a YtDlpResponse or a text that is none.
Process(spawned, success, stdout) ==
    [spawned |-> spawned, success |-> success, stdout |-> stdout]

HTTP == <<"h", "t", "t", "p">>

\* str::starts_with
starts_with(s, prefix) ==
    Len(s) >= Len(prefix) /\ SubSeq(s, 1, Len(prefix)) = prefix

\* The stream url of a response: its url, or that of the first format whose
\* protocol starts with "http".
stream_url_of(payload) ==
    LET formats == unwrap_or(payload.formats, <<>>)
        http == {i \in 1..Len(formats) :
                    /\ IsSome(formats[i].protocol)
                    /\ starts_with(Unwrap(formats[i].protocol), HTTP)}
    IN  IF IsSome(payload.url) THEN payload.url
        ELSE IF http = {} THEN None
        ELSE formats[Min(http)].url

\* YtDlpClient::extract_stream
extract_stream(page_url, process) ==
    IF ~process.spawned \/ ~process.success THEN Err("Process")
    ELSE IF process.stdout.json # "object" THEN Err("Serialization")
    ELSE LET payload == process.stdout.members
             stream_url == stream_url_of(payload)
         IN  IF ~IsSome(stream_url) THEN Err("NotFound")
             ELSE Ok([ResolvedVideo(unwrap_or(payload.id, page_url),
                                    unwrap_or(payload.title, UNTITLED),
                                    unwrap_or(payload.webpage_url, page_url),
                                    Unwrap(stream_url))
                         EXCEPT !.thumbnail_url = payload.thumbnail,
                                !.author_name = payload.uploader,
                                !.extractor = payload.extractor,
                                !.duration_seconds = payload.duration])

\* The age limit resolve_stream passes: 60 * 60 * 6 seconds.
RESOLVE_MAX_AGE_SECONDS == 21600

\* What resolve_stream leaves: its result, the store and the runs of the
\* extractor it made.
Resolved(result, store, requests) ==
    [result |-> result, store |-> store, requests |-> requests]

\* Engine::resolve_stream: the outcomes the call may have, one for every
\* answer the store may give.
resolve_stream(store, page_url, process, now) ==
    {LET resolved == extract_stream(page_url, process)
         written == cache_resolved_video(store, page_url, resolved.v, now)
         run == <<Attempt("yt-dlp", "-J", page_url, None)>>
     IN  IF ~IsOk(cached) THEN Resolved(cached, store, <<>>)
         ELSE IF IsSome(cached.v) THEN Resolved(Ok(Unwrap(cached.v)), store, <<>>)
         ELSE IF ~IsOk(resolved) THEN Resolved(resolved, store, run)
         ELSE IF ~IsOk(written.result) THEN Resolved(written.result, written.store, run)
         ELSE Resolved(resolved, written.store, run) :
        cached \in get_cached_resolved_video(store, page_url,
                                             RESOLVE_MAX_AGE_SECONDS, now)}

\* Database::export_to: the copy of the store file that is written.
export_to(store) == Done(Ok(TRUE), store)

\* Database::import_from: `file` is the file at the import path, if one
\* exists; it is copied over the store file and init() runs on the copy.
import_from(store, file, fault) ==
    IF ~IsSome(file) THEN Done(Err("NotFound"), store)
    ELSE LET initialised == init(Unwrap(file), fault)
         IN  IF ~IsOk(initialised.result) THEN initialised
             ELSE Done(Ok(TRUE), initialised.store)


(***************************************************************************)
(* SpecEngine: runs of up to MaxOperations Engine calls on a store file    *)
(* that does not exist yet, on a file of the legacy generation and on an   *)
(* imported file, starting with the construction of the Engine.  A failed  *)
(* construction hands out no Engine; construction may be tried again.      *)
(***************************************************************************)
MaxOperations == 3

ValidConfig == EngineConfig(<<"h">>, <<"d">>, <<"y">>, <<"p">>)

BlankConfigs ==
    {[ValidConfig EXCEPT !.api_base_url = EMPTY],
     [ValidConfig EXCEPT !.db_path = SPACE],
     [ValidConfig EXCEPT !.yt_dlp_path = SPACE],
     [ValidConfig EXCEPT !.python_executable = EMPTY]}

VERSION_1 == <<"1">>

TAG_V2 == <<"v", "2">>

\* The preference keys Engine::new writes.
BootKeys ==
    {YT_DLP_CURRENT, YT_DLP_LATEST, YT_DLP_UPDATE_AVAILABLE, BOOT_CHECKED_AT,
     BOOT_ERROR}

WorldOk == World(Some(VERSION_1), Ok(Some(TAG_V2)), {})

Worlds ==
    {WorldOk,
     World(None, Ok(None), {}),
     World(Some(VERSION_1), Err("Network"), {}),
     World(Some(VERSION_1), Err("Serialization"), {}),
     World(Some(VERSION_1), Err("Network"), BootKeys),
     World(Some(VERSION_1), Ok(Some(TAG_V2)), {YT_DLP_LATEST}),
     World(Some(VERSION_1), Ok(Some(TAG_V2)), {BOOT_CHECKED_AT, BOOT_ERROR})}

\* A file of the legacy generation: a cached video that is a favorite and
\* has a resolved stream, and a preference.
LegacyFull ==
    LegacyFile(<<[key |-> KEY_K, value |-> VALUE_V]>>,
               <<[video_id |-> ID_A, payload_json |-> to_json(VideoA), updated_at |-> 1]>>,
               <<[video_id |-> ID_A, title |-> <<"f">>, image_url |-> None,
                  network |-> None, added_at |-> 1]>>,
               <<[page_url |-> URL_U, payload_json |-> to_json(ResolvedA),
                  updated_at |-> 1]>>)

\* What lies at the store path before the first construction; a new file is
\* created with empty tables.
StoreFiles == {EmptyStore, LegacyFull, ImportedUndated}

\* The file another Engine exported: its store was LegacyFull, and the
\* favorite was removed before the export.
ExportedElsewhere ==
    export_to(remove_favorite(new(ValidConfig, LegacyFull, 0, WorldOk, 0).store,
                              ID_A).store).store

PATH_EXPORT == <<"e">>

PATH_LEGACY == <<"l">>

PATH_MISSING == <<"m">>

Paths == {PATH_EXPORT, PATH_LEGACY, PATH_MISSING}

\* The file at a path, if one exists.
file_at(path) ==
    IF path = PATH_EXPORT THEN engine.exported
    ELSE IF path = PATH_LEGACY THEN Some(LegacyFull)
    ELSE None

Processes ==
    {Process(TRUE, TRUE, to_json(YtDlpResponse(Some(ID_B), None, None, Some(<<"x">>), None))),
     Process(TRUE, TRUE,
             to_json(YtDlpResponse(None, Some(<<"T">>), None, None,
                                   Some(<<YtDlpFormat(Some(<<"z">>), Some(<<"m", "3", "u", "8">>)),
                                          YtDlpFormat(Some(<<"y">>),
                                                      Some(<<"h", "t", "t", "p", "s">>))>>)))),
     Process(TRUE, TRUE, to_json(YtDlpResponse(Some(ID_B), None, None, None, None))),
     Process(TRUE, TRUE, OTHER_JSON),
     Process(TRUE, FALSE, OTHER_JSON)}

\* Engine::new
New ==
    /\ budget > 0
    /\ \E config \in {ValidConfig} \cup BlankConfigs,
          fault \in 0..Len(legacy_rows(db)),
          world \in Worlds :
          /\ \/ config = ValidConfig /\ fault = 0
             \/ config = ValidConfig /\ world = WorldOk
             \/ fault = 0 /\ world = WorldOk
          /\ \E made \in {new(config, db, fault, world, clock)} :
                 /\ op' = "new"
                 /\ input' = [config |-> config, fault |-> fault, world |-> world]
                 /\ output' = made.result
                 /\ db' = made.store
                 /\ sent' = sent \o made.requests
                 /\ engine' = [engine EXCEPT
                                  !.alive = IsOk(made.result),
                                  !.migrated = IF made.opened THEN IsOk(made.result)
                                               ELSE @,
                                  !.file = @ \/ made.opened]
    /\ budget' = budget - 1
    /\ UNCHANGED clock

\* Engine::remove_favorite
EngineRemoveFavorite ==
    /\ budget > 0
    /\ engine.alive
    /\ Called("remove_favorite", [video_id |-> ID_A], remove_favorite(db, ID_A))

\* Engine::set_user_preference
EngineSetUserPreference ==
    /\ budget > 0
    /\ engine.alive
    /\ Called("set_user_preference", [key |-> KEY_K, value |-> VALUE_W],
              Done(Ok(TRUE), set_meta(db, KEY_K, VALUE_W).store))

\* Engine::clear_cache_data
EngineClearCacheData ==
    /\ budget > 0
    /\ engine.alive
    /\ Called("clear_cache_data", [none |-> UNIT], clear_cache_data(db))

\* Engine::reset_all_data
EngineResetAllData ==
    /\ budget > 0
    /\ engine.alive
    /\ Called("reset_all_data", [fault |-> 0],
              Done(Ok(TRUE), reset_all_data(db, 0).store))

\* Engine::list_favorites
EngineListFavorites ==
    /\ budget > 0
    /\ engine.alive
    /\ \E result \in list_favorites(db, clock) :
          Called("list_favorites", [none |-> UNIT], Done(result, db))

\* Engine::bridge_health
EngineBridgeHealth ==
    /\ budget > 0
    /\ engine.alive
    /\ Called("bridge_health", [none |-> UNIT],
              Done(bridge_health(db, engine.file), db))

\* Engine::resolve_stream
EngineResolveStream ==
    /\ budget > 0
    /\ engine.alive
    /\ \E process \in Processes :
          \E resolved \in resolve_stream(db, URL_U, process, clock) :
              /\ op' = "resolve_stream"
              /\ input' = [page_url |-> URL_U, process |-> process]
              /\ output' = resolved.result
              /\ db' = resolved.store
              /\ sent' = sent \o resolved.requests
    /\ budget' = budget - 1
    /\ UNCHANGED <<clock, engine>>

\* Engine::export_database
EngineExportDatabase ==
    /\ budget > 0
    /\ engine.alive
    /\ op' = "export_database"
    /\ input' = [export_path |-> PATH_EXPORT]
    /\ output' = export_to(db).result
    /\ engine' = [engine EXCEPT !.exported = Some(export_to(db).store)]
    /\ budget' = budget - 1
    /\ UNCHANGED <<db, sent, clock>>

\* Engine::import_database: `fault` is the storage failure init() meets on
\* the copied file.
EngineImportDatabase ==
    /\ budget > 0
    /\ engine.alive
    /\ \E import_path \in Paths, fault \in {0, 3} :
          /\ fault = 0 \/ (/\ IsSome(file_at(import_path))
                           /\ fault <= Len(legacy_rows(Unwrap(file_at(import_path)))))
          /\ LET imported == import_from(db, file_at(import_path), fault)
             IN  /\ op' = "import_database"
                 /\ input' = [import_path |-> import_path, fault |-> fault]
                 /\ output' = imported.result
                 /\ db' = imported.store
                 /\ engine' = [engine EXCEPT
                                  !.migrated = IF IsSome(file_at(import_path))
                                               THEN IsOk(imported.result) ELSE @]
    /\ budget' = budget - 1
    /\ UNCHANGED <<sent, clock>>

InitEngine ==
    /\ op = "open"
    /\ input = [none |-> UNIT]
    /\ output = None
    /\ sent = <<>>
    /\ db \in StoreFiles
    /\ clock = 21602000
    /\ budget = MaxOperations
    /\ engine = [alive |-> FALSE, migrated |-> FALSE, file |-> db # EmptyStore,
                 exported |-> Some(ExportedElsewhere)]

NextEngine ==
    \/ New
    \/ EngineRemoveFavorite
    \/ EngineSetUserPreference
    \/ EngineClearCacheData
    \/ EngineResetAllData
    \/ EngineListFavorites
    \/ EngineBridgeHealth
    \/ EngineResolveStream
    \/ EngineExportDatabase
    \/ EngineImportDatabase

SpecEngine == InitEngine /\ [][NextEngine]_vars


\* C21: once init() has succeeded on a store file, whatever the file held
\* and whatever Engine operations have run since, another init() changes no
\* row of the five unified tables; a favorite that came from the legacy
\* "favorites" table and was removed stays removed.
C21_InitIsIdempotent ==
    engine.migrated => Unified(init(db, 0).store) = Unified(db)


\* C24: import_database from the path an Engine exported its store to makes
\* list_favorites of the importing store answer what it answered on the
\* exporting store at the export, whatever the importing store held; the
\* import leaves the copied file as init() leaves it; and an import from a
\* path where no file exists fails with NotFound and leaves the store as it
\* was.
C24_ExportImportCarriesFavorites ==
    [][(budget' # budget /\ op' = "import_database") =>
        LET file == file_at(input'.import_path)
        IN  IF ~IsSome(file) THEN output' = Err("NotFound") /\ db' = db
            ELSE /\ db' = init(Unwrap(file), input'.fault).store
                 /\ (input'.import_path = PATH_EXPORT /\ IsOk(output')) =>
                       list_favorites(db', clock')
                          = list_favorites(Unwrap(file), clock)]_vars


\* The resolved entries of a page URL that are younger than the limit: the
\* payloads that decode, of rows whose cacheDate is within the limit.
FreshEntries(store, page_url, now) ==
    LET table == store.video_details
    IN  {Unwrap(from_str_ResolvedVideo(Unwrap(table[id].allFormats))) :
            id \in {row \in DOMAIN table :
                      /\ table[row].url = page_url
                      /\ has_payload(table[row].allFormats)
                      /\ IsSome(from_str_ResolvedVideo(Unwrap(table[row].allFormats)))
                      /\ IsSome(table[row].cacheDate)
                      /\ Unwrap(table[row].cacheDate).fmt = "rfc3339"
                      /\ timestamp(now) - timestamp(Unwrap(table[row].cacheDate).ms)
                            <= RESOLVE_MAX_AGE_SECONDS}}

\* The processes run and requests sent by the step.
Issued == SubSeq(sent', Len(sent) + 1, Len(sent'))

\* C25: resolve_stream(url) returns the stored entry of url when one younger
\* than six hours exists, without running the extractor and without writing;
\* otherwise it runs the extractor exactly once, and when the extractor
\* gives a video with a stream url that video is written to the store and
\* returned, while on any failure of the extractor the call fails and the
\* store is left as it was.
C25_ResolveConsultsStoreFirst ==
    [][(budget' # budget /\ op' = "resolve_stream") =>
        LET page_url == input'.page_url
            fresh == FreshEntries(db, page_url, clock)
            resolved == extract_stream(page_url, input'.process)
        IN  IF fresh # {}
            THEN /\ output' \in {Ok(video) : video \in fresh}
                 /\ Issued = <<>>
                 /\ db' = db
            ELSE /\ Issued = <<Attempt("yt-dlp", "-J", page_url, None)>>
                 /\ IF IsOk(resolved)
                    THEN /\ output' = resolved
                         /\ db' = cache_resolved_video(db, page_url, resolved.v,
                                                       clock).store
                    ELSE /\ ~IsOk(output')
                         /\ db' = db]_vars


\* A required field of the configuration is blank.
HasBlankField(config) ==
    \E field \in {"api_base_url", "db_path", "yt_dlp_path", "python_executable"} :
        is_empty(Trim(config[field]))

\* C27: Engine::new with a blank api_base_url, db_path, yt_dlp_path or
\* python_executable fails with InvalidConfig and hands out no Engine, and
\* nothing on disk or on the network has been touched: the store file is as
\* it was (not created if it did not exist, no row migrated) and no process
\* was run and no request sent.
C27_BlankConfigFailsBeforeAnyAction ==
    [][(budget' # budget /\ op' = "new" /\ HasBlankField(input'.config)) =>
        /\ output' = Err("InvalidConfig")
        /\ ~engine'.alive
        /\ db' = db
        /\ engine'.file = engine.file
        /\ engine'.migrated = engine.migrated
        /\ sent' = sent]_vars

\* Construction with a blank python_executable failed where no store file
\* exists: none was created.
C27_Witness ==
    /\ op = "new"
    /\ input.config.python_executable = EMPTY
    /\ output = Err("InvalidConfig")
    /\ ~engine.file
    /\ ~engine.alive
    /\ db = EmptyStore
    /\ sent = <<>>


\* The boot-time check of a construction fails: the release cannot be
\* fetched or decoded, or a preference the check writes cannot be written.
BootCheckFails(world) ==
    \/ ~IsOk(world.release)
    \/ (IsSome(world.version) /\ YT_DLP_CURRENT \in world.failing)
    \/ (IsSome(world.release.v) /\ YT_DLP_LATEST \in world.failing)
    \/ YT_DLP_UPDATE_AVAILABLE \in world.failing
    \/ BOOT_CHECKED_AT \in world.failing

\* The text of the failure of the boot-time check.
BootFailureText(world) ==
    IF ~IsOk(world.release) THEN error_to_string(world.release.kind)
    ELSE error_to_string("Database")

\* An Engine::new step whose configuration is valid and whose init()
\* succeeds, with a failing boot-time check.
BootCheckFailed ==
    /\ budget' # budget
    /\ op' = "new"
    /\ ~HasBlankField(input'.config)
    /\ input'.fault = 0
    /\ BootCheckFails(input'.world)

StoreOperations ==
    {"remove_favorite", "set_user_preference", "clear_cache_data",
     "reset_all_data", "list_favorites", "bridge_health", "resolve_stream",
     "export_database"}

\* C29: an init() that meets a storage failure in a migration step returns
\* a Database error; an Engine::new whose init() failed so fails with it
\* and hands out no Engine; and no store operation runs on a store file on
\* which schema creation and migration have not both succeeded.
C29_NoOperationOnUnmigratedStore ==
    [][/\ (budget' # budget /\ op' \in {"new", "import_database"}
              /\ input'.fault # 0)
          => output' = Err("Database")
       /\ (budget' # budget /\ op' = "new" /\ ~IsOk(output')) => ~engine'.alive
       /\ (budget' # budget /\ op' \in StoreOperations) => engine.migrated]_vars


(***************************************************************************)
(* SpecDiscover: one Engine discover call on a new store and on a store    *)
(* that holds a favorite and a recorded search, with the storage failing   *)
(* at none or one of the writes of the call.                               *)
(***************************************************************************)
\* Where the storage fails during a discover call: nowhere, in cache_videos,
\* in the first statement of record_search or in its second.
StorageFaults == {"none", "cache_videos", "searches", "clicks"}

\* Variant: the search is recorded before the videos are cached.
store_discovered_search_first(store, found, query, now, fault) ==
    LET recorded ==
            IF fault = "searches" THEN Done(Err("Database"), store)
            ELSE IF fault = "clicks"
            THEN Done(Err("Database"),
                      [store EXCEPT !.searches = searched(@, query, now)])
            ELSE record_search(store, query, now)
        cached == IF fault = "cache_videos" THEN Done(Err("Database"), recorded.store)
                  ELSE cache_videos(recorded.store, found.v, now)
    IN  IF ~IsOk(found) THEN Done(found, store)
        ELSE IF ~IsOk(recorded.result) THEN recorded
        ELSE IF ~IsOk(cached.result) THEN cached
        ELSE Done(found, cached.store)

\* The tail of Engine::discover_videos_with_filters: `found` is what the
\* ApiClient returned.  cache_videos writes in one transaction, which a
\* failure rolls back; the two statements of record_search commit one by
\* one.
store_discovered(store, found, query, now, fault) ==
    LET cached == IF fault = "cache_videos" THEN Done(Err("Database"), store)
                  ELSE cache_videos(store, found.v, now)
        recorded ==
            IF fault = "searches" THEN Done(Err("Database"), cached.store)
            ELSE IF fault = "clicks"
            THEN Done(Err("Database"),
                      [cached.store EXCEPT !.searches = searched(@, query, now)])
            ELSE record_search(cached.store, query, now)
    IN  IF ~IsOk(found) THEN Done(found, store)
        ELSE IF ~IsOk(cached.result) THEN cached
        ELSE IF ~IsOk(recorded.result) THEN recorded
        ELSE Done(found, recorded.store)

\* A store that holds a favorite and a recorded search.
UsedStore == record_search(add_favorite(EmptyStore, VideoA, 0).store, QUERY_Q, 0).store

\* Engine::discover_videos_with_filters
DiscoverStoring ==
    /\ op = "init"
    /\ \E net1 \in FlowNets1(input.status), net2 \in Nets(VideoBodies),
          fault \in StorageFaults :
          LET channel == non_empty(input.channel_id)
              call == discover_videos_with_filters(BridgedClient, QUERY_Q, 1, 10,
                                                   channel, <<>>, net1, net2)
              stored == store_discovered(db, call.result, QUERY_Q, clock, fault)
          IN  /\ op' = "discover"
              /\ input' = [status |-> input.status, channel_id |-> input.channel_id,
                           client |-> BridgedClient, query |-> QUERY_Q, page |-> 1,
                           limit |-> 10, selections |-> <<>>,
                           net1 |-> net1, net2 |-> net2, fault |-> fault]
              /\ output' = stored.result
              /\ sent' = call.attempts
              /\ db' = stored.store
              /\ UNCHANGED <<clock, budget, engine>>

InitDiscover ==
    /\ op = "init"
    /\ input \in [status : FlowCatalogs, channel_id : {EMPTY, ID_B}]
    /\ output = None
    /\ sent = <<>>
    /\ db \in {EmptyStore, UsedStore}
    /\ clock = 1000
    /\ budget = 1
    /\ engine = NoEngine

NextDiscover == DiscoverStoring

SpecDiscover == InitDiscover /\ [][NextDiscover]_vars

\* C26: in a discover call every status request precedes every videos
\* request and the store is written only after a videos request; when the
\* call fails before the store is reached (status fetch, channel selection,
\* videos fetch or parsing, which give no Database error) the store is as
\* it was; when cache_videos fails no search is recorded; and when the call
\* succeeds the videos it returns are cached and then the search recorded.
C26_DiscoverStoresInOrder ==
    [][op' = "discover" =>
        /\ \A i, j \in 1..Len(sent') :
              (IsVideosRequest(sent'[i]) /\ ~IsVideosRequest(sent'[j])) => j < i
        /\ db' # db => \E i \in 1..Len(sent') : IsVideosRequest(sent'[i])
        /\ (~IsOk(output') /\ output'.kind # "Database") => db' = db
        /\ (output' = Err("Database") /\ input'.fault = "cache_videos") =>
              /\ db'.searches = db.searches
              /\ db'.categories = db.categories
        /\ db'.searches # db.searches =>
              \A i \in 1..Len(output'.v) :
                  output'.v[i].id \in DOMAIN db'.video_details
        /\ IsOk(output') =>
              db' = record_search(cache_videos(db, output'.v, clock).store,
                                  input'.query, clock).store]_vars

\* The videos were fetched and decoded, cache_videos failed, and the store
\* that held a recorded search holds no more than before.
C26_Witness ==
    /\ op = "discover"
    /\ input.fault = "cache_videos"
    /\ output = Err("Database")
    /\ \E i \in 1..Len(sent) : IsVideosRequest(sent[i])
    /\ db = UsedStore


\* C30: every VideoItem a discover call returns has a network.  A record
\* that carries one (RecordH) keeps the provider's value; a record that
\* carries none (RecordA) takes the id of the channel the videos request
\* was made for, which is a channel of the catalog: the fallback-selected
\* one when the caller's id names no channel, never the caller's id.
C30_NetworkIsProvidersOrResolvedChannel ==
    (op = "discover" /\ IsOk(output)) =>
        /\ RequestChannel \in CatalogIds
        /\ \A i \in 1..Len(output.v) :
              LET item == output.v[i]
              IN  /\ IsSome(item.network)
                  /\ item.id = Unwrap(RecordH.hashed_url) =>
                        item.network = RecordH.network
                  /\ item.id = Unwrap(RecordA.id) =>
                        item.network = Some(RequestChannel)

\* The caller asked for a channel the catalog does not have: the record
\* without a network got the id of the catalog's channel.
C30_Witness ==
    /\ op = "discover"
    /\ IsOk(output)
    /\ input.channel_id = ID_B
    /\ input.status = OneChannelCatalog
    /\ Len(output.v) = 2
    /\ output.v[1].network = Some(ID_A)
    /\ output.v[2].network = Some(<<"n">>)



\* C31: when the primary attempt of the status request is blocked (403, 429
\* or 503) or fails at transport level, and the configured fallback attempt
\* fails too, the request ends in a Network error; and every failure of the
\* request that is not one of decoding its response is of kind Network.
C31_ExhaustedFallbackIsNetwork ==
    op = "fetch_status" =>
        /\ (/\ input.net1.runtime
            /\ IsSome(input.client.curl_cffi_script_path)
            /\ \/ input.net1.primary = "error"
               \/ input.net1.status \in {403, 429, 503}
            /\ ~IsOk(input.net1.fallback)) => output = Err("Network")
        /\ (~IsOk(output) /\ output # Err("Serialization")) => output = Err("Network")


(***************************************************************************)
(* SpecTitles: runs of up to MaxTitleCalls calls of cache_videos and       *)
(* cache_resolved_video on a new store, with resolved videos whose title   *)
(* is a text, empty, or a space.                                           *)
(***************************************************************************)
MaxTitleCalls == 3

\* A resolved video whose title is a single space.
ResolvedSpace == ResolvedVideo(ID_A, SPACE, URL_U, <<"x">>)

CacheResolvedTitled ==
    /\ budget > 0
    /\ \E page_url \in PageUrls, video \in {ResolvedA, ResolvedBlank, ResolvedSpace} :
          Called("cache_resolved_video", [page_url |-> page_url, video |-> video],
                 cache_resolved_video(db, page_url, video, clock))

InitTitles ==
    /\ op = "init"
    /\ input = [none |-> UNIT]
    /\ output = None
    /\ sent = <<>>
    /\ db = EmptyStore
    /\ clock = 0
    /\ budget = MaxTitleCalls
    /\ engine = NoEngine

NextTitles == CacheVideos \/ CacheResolvedTitled

SpecTitles == InitTitles /\ [][NextTitles]_vars

\* C32: cache_resolved_video with an empty or whitespace-only title leaves
\* the title of every row that existed before the call as it was.
C32_BlankTitleKeepsStoredTitle ==
    [][(StoreCall("cache_resolved_video") /\ is_empty(Trim(input'.video.title))) =>
        \A id \in DOMAIN db.video_details :
            /\ id \in DOMAIN db'.video_details
            /\ db'.video_details[id].title = db.video_details[id].title]_vars


\* The row writes a call of init() made: all of them, or those before the
\* one that failed.
WritesMade(store, fault) ==
    IF fault = 0 THEN Len(legacy_rows(store)) ELSE fault - 1

\* The id a legacy resolved-stream row names: the trimmed id of its payload
\* when the payload decodes to a resolved video with a non-blank id.
PayloadId(row) ==
    LET parsed == from_str_ResolvedVideo(row.payload_json)
    IN  IF IsSome(parsed) /\ ~is_empty(Trim(Unwrap(parsed).id))
        THEN Some(Trim(Unwrap(parsed).id)) ELSE None

\* The write of one legacy resolved-stream row took video_details from
\* `before` to `after`, writing a row that matched no URL under `target`.
ResolvedRowMerged(before, after, row, target) ==
    LET matching == {id \in DOMAIN before : before[id].url = row.page_url}
    IN  IF matching # {}
        THEN /\ DOMAIN after = DOMAIN before
             /\ \A id \in DOMAIN before :
                   /\ after[id].url = before[id].url
                   /\ after[id].favoriteDate = before[id].favoriteDate
                   /\ IF id \in matching
                      THEN after[id].allFormats = Some(row.payload_json)
                      ELSE after[id] = before[id]
        ELSE /\ DOMAIN after = DOMAIN before \cup {target}
             /\ after[target].url = row.page_url
             /\ after[target].allFormats = Some(row.payload_json)
             /\ after[target].favoriteDate =
                   IF target \in DOMAIN before THEN before[target].favoriteDate
                   ELSE None
             /\ \A id \in DOMAIN before \ {target} : after[id] = before[id]

\* Every write of a legacy resolved-stream row in a step of init() merged
\* the row, writing under target(row) when no URL matched.
EveryResolvedRowMerged(target(_)) ==
    op' = "init" =>
        LET writes == legacy_rows(db)
        IN  \A i \in 1..WritesMade(db, input'.fault) :
                writes[i].table = "resolved_cache" =>
                    ResolvedRowMerged(
                        migrated_through(db, writes, 1, i - 1).video_details,
                        migrated_through(db, writes, 1, i).video_details,
                        writes[i].row, target(writes[i].row))

SynthesizedId(row) == format_resolved_cache_id(row.page_url)

PayloadOrSynthesizedId(row) == unwrap_or(PayloadId(row), SynthesizedId(row))

\* C33 as stated: a legacy resolved-stream row updates in place every row
\* with its page URL, keeping id and favoriteDate; when no row has the URL
\* it inserts a new row whose id is the synthesized one, and changes no
\* other row.
C33_Original ==
    [][/\ EveryResolvedRowMerged(SynthesizedId)
       /\ op' = "init" =>
            LET writes == legacy_rows(db)
            IN  \A i \in 1..WritesMade(db, input'.fault) :
                   LET before == migrated_through(db, writes, 1, i - 1).video_details
                   IN  (/\ writes[i].table = "resolved_cache"
                        /\ \A id \in DOMAIN before :
                              before[id].url # writes[i].row.page_url)
                          => SynthesizedId(writes[i].row) \notin DOMAIN before]_vars

\* C33, amended: a legacy resolved-stream row updates in place every row
\* with its page URL, keeping id and favoriteDate; when no row has the URL
\* it writes the row whose id is the payload's trimmed id, or the
\* synthesized one when the payload names none: that row is inserted, or,
\* if it exists, updated in place with the legacy page URL, keeping its
\* favoriteDate; no other row changes.
C33_MergedByUrlElseById ==
    [][EveryResolvedRowMerged(PayloadOrSynthesizedId)]_vars

\* A file whose only legacy row is a resolved stream of video "a" was
\* migrated: no row had the URL, and the row was written under "a".
C33_Witness ==
    /\ engine.migrated
    /\ op = "init"
    /\ db.legacy["resolved_cache"] =
          <<[page_url |-> URL_U, payload_json |-> to_json(ResolvedA), updated_at |-> 1]>>
    /\ db.legacy["video_cache"] = <<>>
    /\ db.legacy["favorites"] = <<>>
    /\ DOMAIN db.video_details = {ID_A}
    /\ db.video_details[ID_A].url = URL_U
    /\ db.video_details[ID_A].allFormats = Some(to_json(ResolvedA))


(***************************************************************************)
(* SpecStamps: reads of an imported store whose resolved entry carries a   *)
(* cacheDate written by another program: an integer text, an RFC 3339      *)
(* text, or none.  Up to MaxReads reads are made, at several times of the  *)
(* clock and with several maximal ages, negative ones included.            *)
(***************************************************************************)
MaxReads == 2

\* 10_000_000_001 and 10_000_000_999, 2_000_000_000, 1000, 5, 0 and -5.
IntegerStamps ==
    {IntegerText(10000000, 1), IntegerText(10000000, 999),
     IntegerText(2000000, 0), IntegerText(1, 0), IntegerText(0, 5),
     IntegerText(0, 0), IntegerText(-1, 995)}

Stamps == {Some(stamp) : stamp \in IntegerStamps \cup {Rfc3339(5000)}} \cup {None}

\* An imported file whose resolved entry carries the given cacheDate.
ImportedStamped(stamp) ==
    [EmptyStore EXCEPT !.video_details =
        Insert(EmptyMap, ID_I,
               [DefaultRow(URL_U) EXCEPT
                   !.allFormats = Some(to_json(ResolvedA)), !.cacheDate = stamp])]

StampAges == {-2000, -1, 0, 1, 995}

\* get_cached_resolved_video on the imported store.
ReadStamped ==
    /\ budget > 0
    /\ \E max_age_seconds \in StampAges :
          \E result \in get_cached_resolved_video(db, URL_U, max_age_seconds, clock) :
              Called("get_cached_resolved_video",
                     [page_url |-> URL_U, max_age_seconds |-> max_age_seconds],
                     Done(result, db))

\* parse_timestamp_to_epoch_seconds on the cacheDate of the entry.
ParseStamp ==
    /\ budget > 0
    /\ IsSome(db.video_details[ID_I].cacheDate)
    /\ Called("parse_timestamp_to_epoch_seconds",
              [value |-> Unwrap(db.video_details[ID_I].cacheDate)],
              Done(parse_timestamp_to_epoch_seconds(
                       Unwrap(db.video_details[ID_I].cacheDate)), db))

InitStamps ==
    /\ op = "init"
    /\ input = [none |-> UNIT]
    /\ output = None
    /\ sent = <<>>
    /\ db \in {ImportedStamped(stamp) : stamp \in Stamps}
    /\ clock \in {0, 5000, 6999, 1000000}
    /\ budget = MaxReads
    /\ engine = NoEngine

NextStamps == ReadStamped \/ ParseStamp

SpecStamps == InitStamps /\ [][NextStamps]_vars

\* The integer text n is greater than 10,000,000,000.
AboveTenBillion(n) ==
    n.thousands > 10000000 \/ (n.thousands = 10000000 /\ n.units > 0)

\* The epoch seconds the claim reads from the integer text n.
SecondsOf(n) ==
    IF AboveTenBillion(n) THEN n.thousands ELSE n.thousands * 1000 + n.units

\* The entry of the imported store is dated in the future of `now`.
DatedInTheFuture(date, now) ==
    /\ IsSome(date)
    /\ \/ /\ Unwrap(date).fmt = "integer"
          /\ SecondsOf(Unwrap(date)) > timestamp(now)
       \/ /\ Unwrap(date).fmt = "rfc3339"
          /\ timestamp(Unwrap(date).ms) > timestamp(now)

\* C34: an integer timestamp n is read as n / 1000 seconds exactly when
\* n > 10,000,000,000 and as n seconds otherwise; an entry with such a
\* timestamp is returned exactly when now minus that value is at most the
\* maximal age; and with a negative maximal age every entry that is not
\* dated in the future is a miss.
C34_IntegerStampsAndNegativeAge ==
    LET date == db.video_details[ID_I].cacheDate
    IN  /\ (op = "parse_timestamp_to_epoch_seconds" /\ input.value.fmt = "integer")
              => output = Some(SecondsOf(input.value))
        /\ (/\ op = "get_cached_resolved_video"
            /\ IsSome(date)
            /\ Unwrap(date).fmt = "integer")
              => output =
                    IF timestamp(clock) - SecondsOf(Unwrap(date))
                          <= input.max_age_seconds
                    THEN Ok(Some(ResolvedA)) ELSE Ok(None)
        /\ (/\ op = "get_cached_resolved_video"
            /\ input.max_age_seconds < 0
            /\ ~DatedInTheFuture(date, clock))
              => output = Ok(None)


(***************************************************************************)
(* SpecRefresh: a new store on which resolved streams are stored only      *)
(* during the first second of the clock; afterwards time passes and up to  *)
(* MaxRefreshCalls other operations run, reads of the cache among them.    *)
(***************************************************************************)
MaxRefreshCalls == 4

\* cache_resolved_video, called during the first second.
CacheResolvedEarly ==
    /\ budget > 0
    /\ timestamp(clock) = 0
    /\ \E page_url \in PageUrls :
          Called("cache_resolved_video", [page_url |-> page_url, video |-> ResolvedA],
                 cache_resolved_video(db, page_url, ResolvedA, clock))

InitRefresh ==
    /\ op = "init"
    /\ input = [none |-> UNIT]
    /\ output = None
    /\ sent = <<>>
    /\ db = EmptyStore
    /\ clock \in {0, 500}
    /\ budget = MaxRefreshCalls
    /\ engine = NoEngine

NextRefresh ==
    \/ CacheResolvedEarly
    \/ CacheVideos
    \/ GetCachedResolvedVideo
    \/ AddFavorite
    \/ ClearCacheData
    \/ Tick

SpecRefresh == InitRefresh /\ [][NextRefresh]_vars

\* C35: every resolved stream of the store was stored during second 0, so a
\* read with maximal age m returns one only while the clock's whole second
\* is at most m, whatever operations ran since the stream was stored.
C35_StoredStreamExpires ==
    [][(/\ StoreCall("get_cached_resolved_video")
        /\ IsOk(output')
        /\ IsSome(output'.v))
           => timestamp(clock) <= input'.max_age_seconds]_vars


\* An Engine::new step whose configuration is valid, whose init() succeeds
\* and whose boot-time check completes without error.
BootCheckSucceeded ==
    /\ budget' # budget
    /\ op' = "new"
    /\ ~HasBlankField(input'.config)
    /\ input'.fault = 0
    /\ ~BootCheckFails(input'.world)

\* C36: after a construction whose boot-time check completed without error,
\* bridge_health reports no last_error, whatever earlier constructions on
\* the store recorded.
C36_HealthReportsLatestBoot ==
    [][BootCheckSucceeded =>
        /\ output' = Ok(UNIT)
        /\ bridge_health(db', engine'.file).v.last_error = None]_vars


(***************************************************************************)
(* SpecKeys: build_videos_payload for channels of up to MaxOptions options *)
(* whose ids are "sort" or one of the four names the payload always        *)
(* carries.                                                                *)
(***************************************************************************)
KeyOptions ==
    {ApiStatusChannelOption(id, choices) :
        id \in {K_CHANNEL, K_QUERY, K_PAGE, K_PER_PAGE, SORT},
        choices \in {<<>>, <<ApiStatusChoice(LATEST)>>,
                     <<ApiStatusChoice(VIEWS), ApiStatusChoice(LATEST)>>}}

InitKeys ==
    /\ op = "init"
    /\ \E options \in SeqsUpTo(KeyOptions, MaxOptions),
          selections \in {<<>>, <<FilterSelection(K_PAGE, LATEST)>>} :
          input = [channel |-> ApiStatusChannel(ID_A, None, None, TRUE, options),
                   query |-> QUERY_Q, page |-> 12, limit |-> 10,
                   selections |-> selections]
    /\ output = None
    /\ sent = <<>>
    /\ db = EmptyStore
    /\ clock = 0
    /\ budget = 1
    /\ engine = NoEngine

SpecKeys == InitKeys /\ [][BuildVideosPayload]_vars

\* C37: the payload's "channel", "query", "page" and "perPage" are the
\* channel's id, the caller's query and the decimal texts of page and limit,
\* whatever ids the options of the channel have.
C37_FixedEntriesAreTheCallers ==
    op = "build_videos_payload" =>
        /\ {K_CHANNEL, K_QUERY, K_PAGE, K_PER_PAGE} \subseteq DOMAIN output
        /\ output[K_CHANNEL] = input.channel.id
        /\ output[K_QUERY] = input.query
        /\ output[K_PAGE] = <<"1", "2">>
        /\ output[K_PER_PAGE] = <<"1", "0">>


\* C38: remove_favorite(id) returns true exactly when id was a favorite
\* immediately before the call: its row exists and carries a favoriteDate.
C38_RemoveTellsWhetherItWasAFavorite ==
    [][StoreCall("remove_favorite") =>
        LET id == input'.video_id
            before == db.video_details
        IN  output' = Ok(id \in DOMAIN before /\ is_set(before[id].favoriteDate))]_vars


\* record_search(query) matches the category: its name or its id equals the
\* query when both are put in lower case.
Matched(categories, id, query) ==
    lower(categories[id].name) = lower(query) \/ lower(id) = lower(query)

\* C39: sync_categories keeps every category and its clicks and starts a new
\* category at no clicks; record_search adds one click to every category it
\* matches and none to the others, and adds or removes no category; and no
\* other operation but the reset changes the categories.  So between resets
\* the clicks of a category count the record_search calls that matched it
\* since it was first synced.
C39_ClicksCountMatchesSinceSync ==
    [][/\ StoreCall("sync_categories") =>
            /\ \A id \in DOMAIN db.categories :
                  /\ id \in DOMAIN db'.categories
                  /\ db'.categories[id].clicks = db.categories[id].clicks
            /\ \A id \in DOMAIN db'.categories \ DOMAIN db.categories :
                  db'.categories[id].clicks = 0
       /\ StoreCall("record_search") =>
            /\ DOMAIN db'.categories = DOMAIN db.categories
            /\ \A id \in DOMAIN db.categories :
                  db'.categories[id].clicks =
                      IF Matched(db.categories, id, input'.query)
                      THEN db.categories[id].clicks + 1
                      ELSE db.categories[id].clicks
       /\ (/\ budget' # budget
           /\ op' \notin {"sync_categories", "record_search", "reset_all_data"})
             => db'.categories = db.categories]_vars

\* A category that a search had matched was synced again and kept its click.
C39_Witness ==
    /\ op = "sync_categories"
    /\ input.categories = <<QUERY_Q, E_ACUTE_CAPITAL>>
    /\ QUERY_Q \in DOMAIN db.categories
    /\ db.categories[QUERY_Q].clicks = 1
    /\ QUERY_Q \in DOMAIN db.searches


\* ---------------------------------------------------------------------
\* Two callers on one store.  Every operation opens its own connection
\* (Database::conn), so the statements of two calls reach SQLite one by
\* one in any order.  A statement outside a transaction is committed on
\* its own; the transaction of cache_videos holds the write lock from its
\* first statement to its commit, and a statement that finds the store
\* locked either waits or fails once the busy timeout has passed.
\* input maps each caller to the call it is in, output to the last result
\* it got, and sent is the list of the statements executed, in order.

MaxConcurrentCalls == 3

Callers == {1, 2}

Idle == [call |-> "idle"]

\* The caller that holds the write lock, if any: the one whose transaction
\* has executed a statement and is not yet committed.
Writers == {c \in Callers : input[c].call = "cache_videos" /\ input[c].at > 1}

Unlocked(c) == Writers \subseteq {c}

\* Caller c executed a statement: the store and what c is doing next.
Executed(c, statement, store, next, result) ==
    /\ op' = statement.statement
    /\ sent' = Append(sent, [statement EXCEPT !.caller = c])
    /\ db' = store
    /\ input' = [input EXCEPT ![c] = next]
    /\ output' = [output EXCEPT ![c] = result]
    /\ budget' = IF input[c] = Idle THEN budget - 1 ELSE budget
    /\ UNCHANGED <<clock, engine>>

Statement(name, subject) == [caller |-> 0, statement |-> name, subject |-> subject]

\* add_favorite is a single statement.
AddFavoriteStatement ==
    \E c \in Callers, video \in {VideoA, VideoB} :
        /\ budget > 0 /\ input[c] = Idle /\ Unlocked(c)
        /\ \E done \in {add_favorite(db, video, clock)} :
              Executed(c, Statement("add_favorite", video.id), done.store, Idle,
                       Some(done.result))

\* clear_cache_data is a single statement.
ClearCacheDataStatement ==
    \E c \in Callers :
        /\ budget > 0 /\ input[c] = Idle /\ Unlocked(c)
        /\ \E done \in {clear_cache_data(db)} :
              Executed(c, Statement("clear_cache_data", EMPTY), done.store, Idle,
                       Some(done.result))

\* The query of list_favorites; a reader is never locked out.
ListFavoritesQuery ==
    \E c \in Callers :
        /\ budget > 0 /\ input[c] = Idle
        /\ \E result \in list_favorites(db, clock) :
              Executed(c, Statement("list_favorites", EMPTY), db, Idle, Some(result))

\* The UPDATE of cache_resolved_video; the call goes on to the upsert when
\* the UPDATE changed no row.
UpdateByUrl ==
    \E c \in Callers, page_url \in PageUrls, video \in {ResolvedA, ResolvedBlank} :
        /\ budget > 0 /\ input[c] = Idle /\ Unlocked(c)
        /\ LET updated == Cardinality({id \in DOMAIN db.video_details :
                                          db.video_details[id].url = page_url})
           IN  Executed(c, Statement("update_by_url", page_url),
                        [db EXCEPT !.video_details =
                            update_by_url(@, page_url, video, clock)],
                        IF updated = 0
                        THEN [call |-> "cache_resolved_video",
                              page_url |-> page_url, video |-> video]
                        ELSE Idle,
                        IF updated = 0 THEN output[c] ELSE Some(Ok(UNIT)))

\* The upsert of cache_resolved_video, on the store as it is by then.
UpsertResolved ==
    \E c \in Callers :
        /\ input[c].call = "cache_resolved_video" /\ Unlocked(c)
        /\ Executed(c,
                    Statement("upsert_resolved",
                              IF is_empty(Trim(input[c].video.id))
                              THEN format_resolved_cache_id(input[c].page_url)
                              ELSE input[c].video.id),
                    [db EXCEPT !.video_details =
                        upsert_resolved(@, input[c].page_url, input[c].video, clock)],
                    Idle, Some(Ok(UNIT)))

\* cache_videos opens its transaction; nothing is written or locked yet.
CacheVideosBegin ==
    \E c \in Callers, videos \in Batches :
        /\ budget > 0 /\ input[c] = Idle
        /\ Executed(c, Statement("begin", EMPTY), db,
                    [call |-> "cache_videos", videos |-> videos, at |-> 1,
                     pending |-> EmptyMap],
                    output[c])

\* One upsert of the batch, made inside the transaction: the first takes
\* the write lock and sees the store as it is, the others see what the
\* transaction has written so far.
CacheVideosStatement ==
    \E c \in Callers :
        /\ input[c].call = "cache_videos" /\ Unlocked(c)
        /\ input[c].at <= Len(input[c].videos)
        /\ LET seen == IF input[c].at = 1 THEN db.video_details
                       ELSE input[c].pending
               video == input[c].videos[input[c].at]
           IN  Executed(c, Statement("upsert_cached_video", video.id), db,
                        [input[c] EXCEPT
                            !.at = @ + 1,
                            !.pending = upsert_cached_video(seen, video, clock)],
                        output[c])

\* The commit of cache_videos.
CacheVideosCommit ==
    \E c \in Callers :
        /\ input[c].call = "cache_videos"
        /\ input[c].at > Len(input[c].videos)
        /\ Executed(c, Statement("commit", EMPTY),
                    [db EXCEPT !.video_details = input[c].pending],
                    Idle, Some(Ok(UNIT)))

\* The store stayed locked by the other caller beyond the busy timeout: the
\* statement fails and the call returns a Database error; what the call's
\* earlier statements wrote stays.
Busy ==
    \E c \in Callers :
        /\ ~Unlocked(c)
        /\ input[c] = Idle => budget > 0
        /\ Executed(c, Statement("busy", EMPTY), db, Idle, Some(Err("Database")))

InitCallers ==
    /\ op = "init"
    /\ input = [c \in Callers |-> Idle]
    /\ output = [c \in Callers |-> None]
    /\ sent = <<>>
    /\ db = EmptyStore
    /\ clock = 0
    /\ budget = MaxConcurrentCalls
    /\ engine = NoEngine

NextCallers ==
    \/ AddFavoriteStatement
    \/ ClearCacheDataStatement
    \/ ListFavoritesQuery
    \/ UpdateByUrl
    \/ UpsertResolved
    \/ CacheVideosBegin
    \/ CacheVideosStatement
    \/ CacheVideosCommit
    \/ Busy

SpecCallers == InitCallers /\ [][NextCallers]_vars

\* The ids of the videos for which an add_favorite call has completed.
AddedFavorites ==
    {sent[i].subject : i \in {k \in 1..Len(sent) : sent[k].statement = "add_favorite"}}

\* C40: with the statements of two callers interleaved in any order, every
\* video whose add_favorite has completed is in every list that
\* list_favorites can return, whatever cache_videos, cache_resolved_video
\* and clear_cache_data statements of the other caller come before,
\* between or after.
C40_FavoriteNeverLost ==
    \A id \in AddedFavorites :
        \A result \in list_favorites(db, clock) :
            /\ IsOk(result)
            /\ \E k \in 1..Len(result.v) : result.v[k].video_id = id

\* One caller made video a a favorite between the two statements of the
\* other caller's cache_resolved_video, whose upsert then hit the
\* favorite's row; a clear_cache_data followed.
C40_Witness ==
    \E i, j, k, l \in 1..Len(sent) :
        /\ i < j /\ j < k /\ k < l
        /\ sent[i].statement = "update_by_url"
        /\ sent[j].statement = "add_favorite" /\ sent[j].subject = ID_A
        /\ sent[j].caller # sent[i].caller
        /\ sent[k].statement = "upsert_resolved" /\ sent[k].subject = ID_A
        /\ sent[k].caller = sent[i].caller
        /\ sent[l].statement = "clear_cache_data"
        /\ is_set(db.video_details[ID_A].favoriteDate)
        /\ db.video_details[ID_A].allFormats = Some(to_json(ResolvedA))

====
